---- MODULE Spec2Model ----
(***************************************************************************)
(* Model of the markdown -> Notion block converter                         *)
(* (src/src/tools/utils/markdown-to-blocks.ts).                            *)
(*                                                                         *)
(* A JavaScript string is a sequence of one-character strings.  Regular    *)
(* expressions of the source are operators computing what the regular      *)
(* expression engine computes (leftmost match, alternatives in order,      *)
(* greedy and lazy quantifiers, "." not matching line terminators).        *)
(***************************************************************************)
EXTENDS Integers, Sequences, FiniteSets, TLC

(***************************************************************************)
(* Program constants                                                       *)
(***************************************************************************)
RICH_TEXT_MAX == 2000
BLOCKS_PER_BATCH == 100

(***************************************************************************)
(* Bounds of the model                                                     *)
(***************************************************************************)
\* lines of a small document drawn from LineMenu
MaxLines == 2
\* pieces of an inline text drawn from PieceMenu
MaxPieces == 5
\* a long text has up to MaxChunks * RICH_TEXT_MAX + 1 characters
MaxChunks == 2
\* a long document has up to MaxBatches * BLOCKS_PER_BATCH + 1 lines
MaxBatches == 2

(***************************************************************************)
(* Characters and character classes                                        *)
(***************************************************************************)
NL == "\n"
CR == "\r"
SP == " "
TAB == "\t"
\* the backtick (a string of the module cannot hold the character itself)
BT == "<backtick>"

\* the members of JavaScript's \s (and of what trim() removes) that the
\* inputs use
WhiteSpace == {SP, TAB, NL, CR}
\* "." matches anything but a line terminator
LineTerminators == {NL, CR}
\* \d and \w, restricted to the characters the inputs use
Digits == {"0", "1", "2", "3", "4", "5", "6", "7", "8", "9"}
WordChars == Digits \cup {"a", "b", "c", "j", "s", "x", "X", "_"}

(***************************************************************************)
(* String helpers                                                          *)
(***************************************************************************)
\* s[k], or "" past either end
At(s, k) == IF k \in 1..Len(s) THEN s[k] ELSE ""

\* the least element of a non-empty set of integers
Min(S) == CHOOSE x \in S : \A y \in S : x <= y

\* String.prototype.repeat
Rep(c, n) == [k \in 1..n |-> c]

\* String.prototype.slice(from, to) with 0-based, end-exclusive indices
Slice(s, from, to) ==
  LET hi == IF to > Len(s) THEN Len(s) ELSE to
  IN  IF from >= hi THEN << >> ELSE SubSeq(s, from + 1, hi)

\* how many characters of s, starting at position from (1-based), belong to
\* the class C: the length a greedy C* takes there
Run(s, from, C) ==
  CHOOSE k \in 0..(Len(s) + 1) :
    /\ \A j \in 0..(k - 1) : At(s, from + j) \in C
    /\ At(s, from + k) \notin C

\* (.+)$ at position from: at least one character, none a line terminator,
\* up to the end of the string
DotPlusToEnd(s, from) ==
  /\ from <= Len(s)
  /\ \A j \in from..Len(s) : s[j] \notin LineTerminators

\* String.prototype.trim
Trim(s) ==
  LET first == CHOOSE p \in 1..(Len(s) + 1) :
                 /\ At(s, p) \notin WhiteSpace
                 /\ \A q \in 1..(p - 1) : s[q] \in WhiteSpace
      last  == CHOOSE p \in 0..Len(s) :
                 /\ At(s, p) \notin WhiteSpace
                 /\ \A q \in (p + 1)..Len(s) : s[q] \in WhiteSpace
  IN  IF first > last THEN << >> ELSE SubSeq(s, first, last)

\* the positions of the line feeds of s within lo..hi, ascending (halving
\* the range keeps the evaluation shallow on long texts)
RECURSIVE LineFeeds(_, _, _)
LineFeeds(s, lo, hi) ==
  IF lo > hi THEN << >>
  ELSE IF lo = hi THEN (IF s[lo] = NL THEN << lo >> ELSE << >>)
  ELSE LET mid == (lo + hi) \div 2
       IN  LineFeeds(s, lo, mid) \o LineFeeds(s, mid + 1, hi)

\* String.prototype.split(/\r?\n/): the separator is "\r\n" where a "\r"
\* of the same line precedes the "\n", else "\n"
SplitLines(s) ==
  LET nls == LineFeeds(s, 1, Len(s))
      start(k) == IF k = 1 THEN 1 ELSE nls[k - 1] + 1
      stop(k) ==
        IF k > Len(nls) THEN Len(s)
        ELSE IF nls[k] > start(k) /\ s[nls[k] - 1] = CR THEN nls[k] - 2
        ELSE nls[k] - 1
  IN  [k \in 1..(Len(nls) + 1) |-> SubSeq(s, start(k), stop(k))]

\* Array.prototype.join, of the elements lo..hi
RECURSIVE JoinRange(_, _, _, _)
JoinRange(ls, sep, lo, hi) ==
  IF lo > hi THEN << >>
  ELSE IF lo = hi THEN ls[lo]
  ELSE LET mid == (lo + hi) \div 2
       IN  JoinRange(ls, sep, lo, mid) \o sep \o JoinRange(ls, sep, mid + 1, hi)

Join(ls, sep) == JoinRange(ls, sep, 1, Len(ls))

(***************************************************************************)
(* Rich text segments: { type: "text", text: { content }, annotations? }.  *)
(* annotations is the set of the flags that are true; the absent           *)
(* annotations object is the empty set.                                    *)
(***************************************************************************)
Flags == {"bold", "italic", "strikethrough", "code"}

Segment(content, annotations) ==
  [type |-> "text", content |-> content, annotations |-> annotations]

hasAnnotation(a) == a # {}

\* splitLoop with the annotations of the original left off the chunks
RECURSIVE splitLoopBare(_, _, _)
splitLoopBare(seg, i, parts) ==
  IF i < Len(seg.content)
  THEN LET chunk == Slice(seg.content, i, i + RICH_TEXT_MAX)
       IN  splitLoopBare(seg, i + RICH_TEXT_MAX, Append(parts, Segment(chunk, {})))
  ELSE parts

\* the loop of splitSegment: for (i = 0; i < content.length; i += MAX)
RECURSIVE splitLoop(_, _, _)
splitLoop(seg, i, parts) ==
  IF i < Len(seg.content)
  THEN LET chunk == Slice(seg.content, i, i + RICH_TEXT_MAX)
           s     == Segment(chunk,
                            IF hasAnnotation(seg.annotations)
                            THEN seg.annotations ELSE {})
       IN  splitLoop(seg, i + RICH_TEXT_MAX, Append(parts, s))
  ELSE parts

splitSegment(seg) ==
  IF Len(seg.content) <= RICH_TEXT_MAX THEN << seg >>
  ELSE splitLoop(seg, 0, << >>)

\* for (const seg of segments) result.push(...splitSegment(seg))
RECURSIVE splitAll(_)
splitAll(segs) ==
  IF segs = << >> THEN << >>
  ELSE splitSegment(Head(segs)) \o splitAll(Tail(segs))

\* plainRichText that returns no segment for an empty content
plainRichTextEmptyNone(content) ==
  IF Len(content) = 0 THEN << >>
  ELSE splitSegment(Segment(content, {}))

\* plainRichText that wraps the content without splitting it
plainRichTextUnsplit(content) == << Segment(content, {}) >>

plainRichText(content) ==
  IF Len(content) = 0 THEN << Segment(<< >>, {}) >>
  ELSE splitSegment(Segment(content, {}))

(***************************************************************************)
(* The inline pattern                                                      *)
(*   /(\*\*(.+?)\*\*|~~(.+?)~~|BT(.+?)BT|\*(.+?)\*|_(.+?)_)/               *)
(* Alternative k captures into group k + 1.                                *)
(***************************************************************************)
\* Alternatives with the single asterisk tried before the double one
AlternativesItalicFirst ==
  << [delim |-> << "*" >>,      group |-> 5],
     [delim |-> << "*", "*" >>, group |-> 2],
     [delim |-> << "~", "~" >>, group |-> 3],
     [delim |-> << BT >>,       group |-> 4],
     [delim |-> << "_" >>,      group |-> 6] >>

Alternatives ==
  << [delim |-> << "*", "*" >>, group |-> 2],
     [delim |-> << "~", "~" >>, group |-> 3],
     [delim |-> << BT >>,       group |-> 4],
     [delim |-> << "*" >>,      group |-> 5],
     [delim |-> << "_" >>,      group |-> 6] >>

\* the delimiter d stands in s at position p (1-based)
DelimAt(s, p, d) == \A k \in 1..Len(d) : At(s, p + k - 1) = d[k]

\* the positions where the closing delimiter of alternative d, opened at p,
\* can stand: after at least one character, none of them a line terminator
Closers(s, p, d) ==
  {q \in (p + Len(d) + 1)..(Len(s) - Len(d) + 1) :
     /\ DelimAt(s, q, d)
     /\ \A j \in (p + Len(d))..(q - 1) : s[j] \notin LineTerminators}

\* alternative d matches at position p
AltMatches(s, p, d) == DelimAt(s, p, d) /\ Closers(s, p, d) # {}

\* the alternatives in the order the engine tries them at one position
FirstAlternative(s, p) ==
  Min({a \in 1..Len(Alternatives) : AltMatches(s, p, Alternatives[a].delim)})

NoMatch == [found |-> FALSE, index |-> 0, length |-> 0, group |-> 0,
            inner |-> << >>]

\* patternExec with the marker characters taken out of the captured text
patternExecStripped(s) ==
  LET starts == {p \in 1..Len(s) :
                   \E a \in 1..Len(Alternatives) :
                     AltMatches(s, p, Alternatives[a].delim)}
      isText(c) == c \notin {"*", "_", "~", BT}
  IN  IF starts = {} THEN NoMatch
      ELSE LET p   == Min(starts)
               alt == Alternatives[FirstAlternative(s, p)]
               q   == Min(Closers(s, p, alt.delim))
           IN  [found  |-> TRUE,
                index  |-> p - 1,
                length |-> (q + Len(alt.delim)) - p,
                group  |-> alt.group,
                inner  |-> SelectSeq(SubSeq(s, p + Len(alt.delim), q - 1),
                                     isText)]

\* pattern.exec(s): the leftmost position where an alternative matches, the
\* first alternative matching there, and the shortest span (.+? is lazy).
\* index is 0-based as in JavaScript.
patternExec(s) ==
  LET starts == {p \in 1..Len(s) :
                   \E a \in 1..Len(Alternatives) :
                     AltMatches(s, p, Alternatives[a].delim)}
  IN  IF starts = {} THEN NoMatch
      ELSE LET p   == Min(starts)
               alt == Alternatives[FirstAlternative(s, p)]
               q   == Min(Closers(s, p, alt.delim))
           IN  [found  |-> TRUE,
                index  |-> p - 1,
                length |-> (q + Len(alt.delim)) - p,
                group  |-> alt.group,
                inner  |-> SubSeq(s, p + Len(alt.delim), q - 1)]

\* GroupAnnotation with the underscore group left without its flag
GroupAnnotationNoUnderscore(g) ==
  CASE g = 2 -> {"bold"}
    [] g = 3 -> {"strikethrough"}
    [] g = 4 -> {"code"}
    [] g = 5 -> {"italic"}
    [] g = 6 -> {}

\* the annotation the tokenizer gives to a capture group
GroupAnnotation(g) ==
  CASE g = 2 -> {"bold"}
    [] g = 3 -> {"strikethrough"}
    [] g = 4 -> {"code"}
    [] g = 5 -> {"italic"}
    [] g = 6 -> {"italic"}

(***************************************************************************)
(* The line classifiers of markdownToBlocks.  Each returns                  *)
(* [ok, ...captures]; text is the last capture group.                      *)
(***************************************************************************)
Fail == [ok |-> FALSE, text |-> << >>, n |-> 0, mark |-> ""]

\* line.match(/^BT BT BT(\w*)$/), on the untrimmed line; text is group 1
fenceMatch(line) ==
  IF /\ Len(line) >= 3
     /\ \A k \in 1..3 : line[k] = BT
     /\ \A k \in 4..Len(line) : line[k] \in WordChars
  THEN [ok |-> TRUE, text |-> SubSeq(line, 4, Len(line)), n |-> 0, mark |-> ""]
  ELSE Fail

\* \s+(.+)$ at position from: the greedy \s+ takes the whole run of white
\* space (the character after it is none, so no shorter run helps (.+)$)
WsThenText(t, from) ==
  LET w == Run(t, from, WhiteSpace)
  IN  IF w >= 1 /\ DotPlusToEnd(t, from + w)
      THEN [ok |-> TRUE, text |-> SubSeq(t, from + w, Len(t)), n |-> 0, mark |-> ""]
      ELSE Fail

\* headingMatch with the white space after the '#' optional (\s* for \s+)
headingMatchOptionalSpace(t) ==
  LET run == Run(t, 1, {"#"})
      h   == IF run > 6 THEN 6 ELSE run
      w   == Run(t, h + 1, WhiteSpace)
  IN  IF h >= 1 /\ DotPlusToEnd(t, h + w + 1)
      THEN [ok |-> TRUE, text |-> SubSeq(t, h + w + 1, Len(t)), n |-> h,
            mark |-> ""]
      ELSE Fail

\* trimmedLine.match(/^(#{1,6})\s+(.+)$/); n is the length of group 1
headingMatch(t) ==
  LET h == Run(t, 1, {"#"})
      r == WsThenText(t, h + 1)
  IN  IF h >= 1 /\ h <= 6 /\ r.ok THEN [r EXCEPT !.n = h] ELSE Fail

\* trimmedLine.match(/^[-*]\s+\[([ xX])\]\s+(.+)$/); mark is group 1
todoMatch(t) ==
  LET w == Run(t, 2, WhiteSpace)
      r == WsThenText(t, w + 5)
  IN  IF /\ At(t, 1) \in {"-", "*"}
         /\ w >= 1
         /\ At(t, w + 2) = "["
         /\ At(t, w + 3) \in {" ", "x", "X"}
         /\ At(t, w + 4) = "]"
         /\ r.ok
      THEN [r EXCEPT !.mark = t[w + 3]]
      ELSE Fail

\* trimmedLine.match(/^[-*]\s+(.+)$/)
bulletMatch(t) ==
  IF At(t, 1) \in {"-", "*"} THEN WsThenText(t, 2) ELSE Fail

\* trimmedLine.match(/^\d+\.\s+(.+)$/)
numberedMatch(t) ==
  LET d == Run(t, 1, Digits)
  IN  IF d >= 1 /\ At(t, d + 1) = "." THEN WsThenText(t, d + 2) ELSE Fail

\* trimmedLine.match(/^>\s+(.+)$/)
quoteMatch(t) ==
  IF At(t, 1) = ">" THEN WsThenText(t, 2) ELSE Fail

(***************************************************************************)
(* Blocks: { object: "block", type, [type]: payload }.  keys is the set of *)
(* the payload's fields; a field that is not in keys holds a filler.       *)
(***************************************************************************)
makeBlock(type, keys, rich_text, checked, language) ==
  [object |-> "block", type |-> type, keys |-> keys,
   rich_text |-> rich_text, checked |-> checked, language |-> language]

\* richTextBlock(type, richText, extra): extra is { checked } for a to_do
richTextBlock(type, richText, hasChecked, checked) ==
  makeBlock(type,
            IF hasChecked THEN {"rich_text", "checked"} ELSE {"rich_text"},
            richText, checked, << >>)

PlainText == << "p", "l", "a", "i", "n", " ", "t", "e", "x", "t" >>

\* headingLevel with the clamp at 2
headingLevelClampTwo(n) == IF n < 2 THEN n ELSE 2

\* Math.min(headingMatch[1].length, 3)
headingLevel(n) == IF n < 3 THEN n ELSE 3

headingType(n) ==
  CASE headingLevel(n) = 1 -> "heading_1"
    [] headingLevel(n) = 2 -> "heading_2"
    [] headingLevel(n) = 3 -> "heading_3"

\* classifyLine with the check mark compared to the lower-case x only
classifyLineLowerX(t) ==
  LET h == headingMatch(t)
      d == todoMatch(t)
      b == bulletMatch(t)
      n == numberedMatch(t)
      q == quoteMatch(t)
      line(type, text, hasChecked, checked) ==
        [type |-> type, text |-> text,
         hasChecked |-> hasChecked, checked |-> checked]
  IN  IF h.ok THEN line(headingType(h.n), h.text, FALSE, FALSE)
      ELSE IF d.ok THEN line("to_do", d.text, TRUE, d.mark = "x")
      ELSE IF b.ok THEN line("bulleted_list_item", b.text, FALSE, FALSE)
      ELSE IF n.ok THEN line("numbered_list_item", n.text, FALSE, FALSE)
      ELSE IF q.ok THEN line("quote", q.text, FALSE, FALSE)
      ELSE line("paragraph", t, FALSE, FALSE)

\* classifyLine with the bulleted test moved before the to-do test
classifyLineBulletFirst(t) ==
  LET h == headingMatch(t)
      d == todoMatch(t)
      b == bulletMatch(t)
      n == numberedMatch(t)
      q == quoteMatch(t)
      line(type, text, hasChecked, checked) ==
        [type |-> type, text |-> text,
         hasChecked |-> hasChecked, checked |-> checked]
  IN  IF h.ok THEN line(headingType(h.n), h.text, FALSE, FALSE)
      ELSE IF b.ok THEN line("bulleted_list_item", b.text, FALSE, FALSE)
      ELSE IF d.ok THEN line("to_do", d.text, TRUE, d.mark # " ")
      ELSE IF n.ok THEN line("numbered_list_item", n.text, FALSE, FALSE)
      ELSE IF q.ok THEN line("quote", q.text, FALSE, FALSE)
      ELSE line("paragraph", t, FALSE, FALSE)

\* the if-chain of markdownToBlocks below the divider test, on a trimmed
\* line that is neither blank nor "---": the block type, the text given to
\* parseInlineAnnotations and the extra payload { checked }
classifyLine(t) ==
  LET h == headingMatch(t)
      d == todoMatch(t)
      b == bulletMatch(t)
      n == numberedMatch(t)
      q == quoteMatch(t)
      line(type, text, hasChecked, checked) ==
        [type |-> type, text |-> text,
         hasChecked |-> hasChecked, checked |-> checked]
  IN  IF h.ok THEN line(headingType(h.n), h.text, FALSE, FALSE)
      ELSE IF d.ok THEN line("to_do", d.text, TRUE, d.mark # " ")
      ELSE IF b.ok THEN line("bulleted_list_item", b.text, FALSE, FALSE)
      ELSE IF n.ok THEN line("numbered_list_item", n.text, FALSE, FALSE)
      ELSE IF q.ok THEN line("quote", q.text, FALSE, FALSE)
      ELSE line("paragraph", t, FALSE, FALSE)

Fence == << BT, BT, BT >>
Rule == << "-", "-", "-" >>

(***************************************************************************)
(* State                                                                   *)
(***************************************************************************)
VARIABLES
  content,     \* the argument of markdownToBlocks / markdownToBlocksBatched
  pc,          \* the position of the call in the code
  lines,       \* markdownToBlocks: lines
  i,           \* markdownToBlocks: i (0-based)
  blocks,      \* markdownToBlocks: blocks
  language,    \* markdownToBlocks: language of the open fence
  codeLines,   \* markdownToBlocks: codeLines of the open fence
  pending,     \* the block under construction while its text is tokenized
  text,        \* parseInlineAnnotations: text
  remaining,   \* parseInlineAnnotations: remaining
  segments,    \* parseInlineAnnotations: segments
  result,      \* parseInlineAnnotations: result
  batches,     \* markdownToBlocksBatched: batches
  bi,          \* markdownToBlocksBatched: i
  seg,         \* splitSegment: seg
  parts        \* splitSegment: the value returned

vars == << content, pc, lines, i, blocks, language, codeLines, pending, text,
           remaining, segments, result, batches, bi, seg, parts >>

convVars == << lines, i, blocks, language, codeLines, pending >>
tokVars == << text, remaining, segments, result >>
batchVars == << batches, bi >>
splitVars == << seg, parts >>

(***************************************************************************)
(* The server around the converter: process.env, the NotionClient          *)
(* singleton, the tool registry, the running handler and the remote API    *)
(***************************************************************************)
VARIABLES
  env,            \* process.env: NOTION_TOKEN and NOTION_MCP_TOOLSET
  clientInstance, \* notion-client: clientInstance (0 is null)
  instances,      \* the NotionClient objects constructed so far
  registered,     \* the tools registered on the server, in order
  finalTools,     \* registerTools: the tools still to register
  hpc,            \* the position of the server code
  args,           \* the tool and arguments of the running handler
  loc,            \* the locals of the running handler
  inflight,       \* the request the transport is working on
  reply,          \* how the awaited client method settled
  log,            \* the remote requests issued so far
  remote,         \* the remote workspace
  outcome         \* what the call returned or threw

srvVars == << env, clientInstance, instances, registered, finalTools, hpc,
              args, loc, inflight, reply, log, remote, outcome >>

allVars == << vars, srvVars >>

\* an optional string: undefined, or a value
None == [defined |-> FALSE, value |-> << >>]
Some(v) == [defined |-> TRUE, value |-> v]

\* JavaScript truthiness of an optional string
Truthy(o) == o.defined /\ o.value # << >>

\* an optional field of a response body
Absent == [defined |-> FALSE, value |-> ""]
Field(v) == [defined |-> TRUE, value |-> v]

\* a || b for an optional field of a response body
OrElse(o, default) == IF o.defined /\ o.value # "" THEN o.value ELSE default

NoBody == [message |-> Absent, code |-> Absent]
NoDetails == [defined |-> FALSE, value |-> NoBody]
NoError ==
  [name |-> "", message |-> "", status |-> 0, code |-> "", details |-> NoDetails]

NoArgs ==
  [tool |-> "", item |-> None, title |-> None, append_content |-> None,
   replace_content |-> None, collection |-> None, parent_item |-> None,
   content |-> None]

NoLocals ==
  [client |-> 0, collectionId |-> << >>, hasParams |-> FALSE,
   blockIds |-> << >>, cursor |-> 0, li |-> 0, di |-> 0,
   phase |-> "", hbatches |-> << >>, bidx |-> 0, parent |-> "",
   children |-> << >>]

NoRequest ==
  [method |-> "", target |-> << >>, cursor |-> 0, block |-> 0,
   children |-> << >>, parent |-> ""]

NoData ==
  [results |-> << >>, has_more |-> FALSE, next_cursor |-> 0,
   collection_id |-> << >>]

\* no error of the transport
NoAxiosError ==
  [response |-> [defined |-> FALSE, status |-> 0, data |-> NoBody],
   message |-> Absent]

\* the awaited promise: not settled, resolved with data, or rejected with
\* error; cause is what the transport itself rejected with
NoReply ==
  [state |-> "none", data |-> NoData, error |-> NoError,
   cause |-> NoAxiosError]

NoOutcome ==
  [kind |-> "none", message |-> "", hasCode |-> FALSE, code |-> "",
   thrown |-> NoError, value |-> 0]

\* the remote workspace: the children of the page (initial of them were
\* there before the call), the collection the page is in, the pages
\* created, and the failures the transport can meet
NoRemote ==
  [children |-> << >>, initial |-> 0, nextId |-> 1, collection_id |-> << >>,
   faults |-> {}, created |-> << >>]

\* no server code runs
ServerIdle ==
  /\ env = [NOTION_TOKEN |-> None, NOTION_MCP_TOOLSET |-> None]
  /\ clientInstance = 0
  /\ instances = 0
  /\ registered = << >>
  /\ finalTools = << >>
  /\ hpc = "idle"
  /\ args = NoArgs
  /\ loc = NoLocals
  /\ inflight = NoRequest
  /\ reply = NoReply
  /\ log = << >>
  /\ remote = NoRemote
  /\ outcome = NoOutcome

NoPending == [type |-> "", text |-> << >>, hasChecked |-> FALSE, checked |-> FALSE]

(***************************************************************************)
(* markdownToBlocks                                                        *)
(***************************************************************************)
\* Start with blocks kept from one call to the next (a module-level array)
StartKeepsBlocks ==
  /\ pc = "start"
  /\ \E trimmed \in {Trim(content)} :
       IF trimmed = << >>
       THEN /\ pc' = "returned"
            /\ lines' = lines
       ELSE /\ pc' = "scan"
            /\ lines' = SplitLines(trimmed)
  /\ i' = 0
  /\ blocks' = blocks
  /\ UNCHANGED << content, language, codeLines, pending >>
  /\ UNCHANGED << tokVars, batchVars, splitVars >>
  /\ UNCHANGED srvVars

\* const trimmed = content.trim(); if (!trimmed) return []; split; i = 0
Start ==
  /\ pc = "start"
  /\ \E trimmed \in {Trim(content)} :
       IF trimmed = << >>
       THEN /\ pc' = "returned"
            /\ lines' = lines
       ELSE /\ pc' = "scan"
            /\ lines' = SplitLines(trimmed)
  /\ i' = 0
  /\ blocks' = << >>
  /\ UNCHANGED << content, language, codeLines, pending >>
  /\ UNCHANGED << tokVars, batchVars, splitVars >>
  /\ UNCHANGED srvVars

AtLine == pc = "scan" /\ i < Len(lines)

\* the fence opener: language, codeLines = [], i++
FenceOpen ==
  /\ AtLine
  /\ LET m == fenceMatch(lines[i + 1])
     IN  /\ m.ok
         /\ language' = IF m.text = << >> THEN PlainText ELSE m.text
  /\ codeLines' = << >>
  /\ i' = i + 1
  /\ pc' = "fence"
  /\ UNCHANGED << content, lines, blocks, pending >>
  /\ UNCHANGED << tokVars, batchVars, splitVars >>
  /\ UNCHANGED srvVars

\* FenceStep that leaves the fence at any line that looks like a fence
FenceStepAnyFence ==
  /\ pc = "fence"
  /\ i < Len(lines)
  /\ IF fenceMatch(Trim(lines[i + 1])).ok
     THEN /\ pc' = "fence_exit"
          /\ codeLines' = codeLines
     ELSE /\ pc' = "fence"
          /\ codeLines' = Append(codeLines, lines[i + 1])
  /\ i' = i + 1
  /\ UNCHANGED << content, lines, blocks, language, pending >>
  /\ UNCHANGED << tokVars, batchVars, splitVars >>
  /\ UNCHANGED srvVars

\* FenceStep that trims the line it pushes
FenceStepTrimmed ==
  /\ pc = "fence"
  /\ i < Len(lines)
  /\ IF lines[i + 1] = Fence
     THEN /\ pc' = "fence_exit"
          /\ codeLines' = codeLines
     ELSE /\ pc' = "fence"
          /\ codeLines' = Append(codeLines, Trim(lines[i + 1]))
  /\ i' = i + 1
  /\ UNCHANGED << content, lines, blocks, language, pending >>
  /\ UNCHANGED << tokVars, batchVars, splitVars >>
  /\ UNCHANGED srvVars

\* one iteration of the inner while: the closer breaks, any other line is
\* pushed verbatim
FenceStep ==
  /\ pc = "fence"
  /\ i < Len(lines)
  /\ IF lines[i + 1] = Fence
     THEN /\ pc' = "fence_exit"
          /\ codeLines' = codeLines
     ELSE /\ pc' = "fence"
          /\ codeLines' = Append(codeLines, lines[i + 1])
  /\ i' = i + 1
  /\ UNCHANGED << content, lines, blocks, language, pending >>
  /\ UNCHANGED << tokVars, batchVars, splitVars >>
  /\ UNCHANGED srvVars

\* FenceEmit that pushes the code block only after a closing fence
FenceEmitDropsUnclosed ==
  /\ \/ pc = "fence_exit"
     \/ pc = "fence" /\ i >= Len(lines)
  /\ blocks' = IF pc = "fence_exit"
               THEN Append(blocks,
                           makeBlock("code", {"rich_text", "language"},
                                     plainRichText(Join(codeLines, << NL >>)),
                                     FALSE, language))
               ELSE blocks
  /\ pc' = "scan"
  /\ UNCHANGED << content, lines, i, language, codeLines, pending >>
  /\ UNCHANGED << tokVars, batchVars, splitVars >>
  /\ UNCHANGED srvVars

\* after the inner while: push the code block, continue
FenceEmit ==
  /\ \/ pc = "fence_exit"
     \/ pc = "fence" /\ i >= Len(lines)
  /\ blocks' = Append(blocks,
                      makeBlock("code", {"rich_text", "language"},
                                plainRichText(Join(codeLines, << NL >>)),
                                FALSE, language))
  /\ pc' = "scan"
  /\ UNCHANGED << content, lines, i, language, codeLines, pending >>
  /\ UNCHANGED << tokVars, batchVars, splitVars >>
  /\ UNCHANGED srvVars

\* SkipBlank that pushes an empty paragraph for the blank line
SkipBlankPushes ==
  /\ AtLine
  /\ ~fenceMatch(lines[i + 1]).ok
  /\ Trim(lines[i + 1]) = << >>
  /\ blocks' = Append(blocks,
                      richTextBlock("paragraph", plainRichText(<< >>),
                                    FALSE, FALSE))
  /\ i' = i + 1
  /\ UNCHANGED << content, pc, lines, language, codeLines, pending >>
  /\ UNCHANGED << tokVars, batchVars, splitVars >>
  /\ UNCHANGED srvVars

\* if (trimmedLine === "") { i++; continue; }
SkipBlank ==
  /\ AtLine
  /\ ~fenceMatch(lines[i + 1]).ok
  /\ Trim(lines[i + 1]) = << >>
  /\ i' = i + 1
  /\ UNCHANGED << content, pc, lines, blocks, language, codeLines, pending >>
  /\ UNCHANGED << tokVars, batchVars, splitVars >>
  /\ UNCHANGED srvVars

\* Divider that takes every line starting with three hyphens
DividerPrefix ==
  /\ AtLine
  /\ ~fenceMatch(lines[i + 1]).ok
  /\ Slice(Trim(lines[i + 1]), 0, 3) = Rule
  /\ blocks' = Append(blocks, makeBlock("divider", {}, << >>, FALSE, << >>))
  /\ i' = i + 1
  /\ UNCHANGED << content, pc, lines, language, codeLines, pending >>
  /\ UNCHANGED << tokVars, batchVars, splitVars >>
  /\ UNCHANGED srvVars

\* if (trimmedLine === "---") { push divider; i++; continue; }
Divider ==
  /\ AtLine
  /\ ~fenceMatch(lines[i + 1]).ok
  /\ Trim(lines[i + 1]) = Rule
  /\ blocks' = Append(blocks, makeBlock("divider", {}, << >>, FALSE, << >>))
  /\ i' = i + 1
  /\ UNCHANGED << content, pc, lines, language, codeLines, pending >>
  /\ UNCHANGED << tokVars, batchVars, splitVars >>
  /\ UNCHANGED srvVars

\* a text line: the classifier that matches calls parseInlineAnnotations
CallTokenizer ==
  /\ AtLine
  /\ ~fenceMatch(lines[i + 1]).ok
  /\ LET t == Trim(lines[i + 1])
     IN  /\ t # << >>
         /\ t # Rule
         /\ pending' = classifyLine(t)
  /\ text' = pending'.text
  /\ remaining' = pending'.text
  /\ segments' = << >>
  /\ pc' = "tok"
  /\ UNCHANGED << content, lines, i, blocks, language, codeLines, result >>
  /\ UNCHANGED << batchVars, splitVars >>
  /\ UNCHANGED srvVars

(***************************************************************************)
(* parseInlineAnnotations                                                  *)
(***************************************************************************)
\* pushed with the push of the unmatched rest forgotten
pushedNoTail(rem, match) ==
  IF ~match.found THEN << >>
  ELSE (IF match.index > 0
        THEN << Segment(Slice(rem, 0, match.index), {}) >>
        ELSE << >>)
       \o << Segment(match.inner, GroupAnnotation(match.group)) >>

\* pushed with the text before the match sliced from 1 instead of 0
pushedFromOne(rem, match) ==
  IF ~match.found THEN << Segment(rem, {}) >>
  ELSE (IF match.index > 0
        THEN << Segment(Slice(rem, 1, match.index), {}) >>
        ELSE << >>)
       \o << Segment(match.inner, GroupAnnotation(match.group)) >>

\* one iteration of while (remaining.length > 0)
\* what one iteration pushes: the text before the match, if any, and the
\* captured group; without a match, the rest of the text
pushed(rem, match) ==
  IF ~match.found THEN << Segment(rem, {}) >>
  ELSE (IF match.index > 0
        THEN << Segment(Slice(rem, 0, match.index), {}) >>
        ELSE << >>)
       \o << Segment(match.inner, GroupAnnotation(match.group)) >>

\* rest with the advance past the match forgotten
restNoAdvance(rem, match) ==
  IF ~match.found THEN rem ELSE Slice(rem, match.index, Len(rem))

\* what one iteration leaves of remaining (a break leaves it as it is)
rest(rem, match) ==
  IF ~match.found THEN rem
  ELSE Slice(rem, match.index + match.length, Len(rem))

TokStep ==
  /\ pc = "tok"
  /\ Len(remaining) > 0
  /\ \E match \in {patternExec(remaining)} :
       /\ segments' = segments \o pushed(remaining, match)
       /\ remaining' = rest(remaining, match)
       /\ pc' = IF match.found THEN "tok" ELSE "tok_break"
  /\ UNCHANGED << content, text, result >>
  /\ UNCHANGED << convVars, batchVars, splitVars >>
  /\ UNCHANGED srvVars

\* after the while: split every segment and return
TokReturn ==
  /\ \/ pc = "tok_break"
     \/ pc = "tok" /\ Len(remaining) = 0
  /\ result' = splitAll(segments)
  /\ pc' = "tok_ret"
  /\ UNCHANGED << content, text, remaining, segments >>
  /\ UNCHANGED << convVars, batchVars, splitVars >>
  /\ UNCHANGED srvVars

\* blocks.push(richTextBlock(type, parseInlineAnnotations(...), extra)); i++
PushBlock ==
  /\ pc = "tok_ret"
  /\ blocks' = Append(blocks,
                      richTextBlock(pending.type, result,
                                    pending.hasChecked, pending.checked))
  /\ i' = i + 1
  /\ pc' = "scan"
  /\ UNCHANGED << content, lines, language, codeLines, pending >>
  /\ UNCHANGED << tokVars, batchVars, splitVars >>
  /\ UNCHANGED srvVars

\* the outer while ends: return blocks
ScanExit ==
  /\ pc = "scan"
  /\ i >= Len(lines)
  /\ pc' = "returned"
  /\ UNCHANGED << content >>
  /\ UNCHANGED << convVars, tokVars, batchVars, splitVars >>
  /\ UNCHANGED srvVars

(***************************************************************************)
(* markdownToBlocksBatched                                                 *)
(***************************************************************************)
\* if (blocks.length === 0) return []; batches = []; i = 0
BatchStart ==
  /\ pc = "returned"
  /\ batches' = << >>
  /\ bi' = 0
  /\ pc' = IF Len(blocks) = 0 THEN "done" ELSE "batch"
  /\ UNCHANGED << content >>
  /\ UNCHANGED << convVars, tokVars, splitVars >>
  /\ UNCHANGED srvVars

\* BatchStep with the loop test i <= blocks.length
BatchStepInclusive ==
  /\ pc = "batch"
  /\ bi <= Len(blocks)
  /\ batches' = Append(batches, Slice(blocks, bi, bi + BLOCKS_PER_BATCH))
  /\ bi' = bi + BLOCKS_PER_BATCH
  /\ UNCHANGED << content, pc >>
  /\ UNCHANGED << convVars, tokVars, splitVars >>
  /\ UNCHANGED srvVars

\* BatchStep with the index advanced one short of the slice taken
BatchStepOverlap ==
  /\ pc = "batch"
  /\ bi < Len(blocks)
  /\ batches' = Append(batches, Slice(blocks, bi, bi + BLOCKS_PER_BATCH))
  /\ bi' = bi + BLOCKS_PER_BATCH - 1
  /\ UNCHANGED << content, pc >>
  /\ UNCHANGED << convVars, tokVars, splitVars >>
  /\ UNCHANGED srvVars

\* batches.push(blocks.slice(i, i + BLOCKS_PER_BATCH)); i += BLOCKS_PER_BATCH
BatchStep ==
  /\ pc = "batch"
  /\ bi < Len(blocks)
  /\ batches' = Append(batches, Slice(blocks, bi, bi + BLOCKS_PER_BATCH))
  /\ bi' = bi + BLOCKS_PER_BATCH
  /\ UNCHANGED << content, pc >>
  /\ UNCHANGED << convVars, tokVars, splitVars >>
  /\ UNCHANGED srvVars

\* the for ends: return batches
BatchExit ==
  /\ pc = "batch"
  /\ bi >= Len(blocks)
  /\ pc' = "done"
  /\ UNCHANGED << content >>
  /\ UNCHANGED << convVars, tokVars, batchVars, splitVars >>
  /\ UNCHANGED srvVars

(***************************************************************************)
(* splitSegment, called on its own                                         *)
(***************************************************************************)
SplitCall ==
  /\ pc = "split"
  /\ parts' = splitSegment(seg)
  /\ pc' = "split_ret"
  /\ UNCHANGED << content, seg >>
  /\ UNCHANGED << convVars, tokVars, batchVars >>
  /\ UNCHANGED srvVars

(***************************************************************************)
(* One call after another                                                  *)
(***************************************************************************)
\* the documents of the calls that follow one another: empty, with blank
\* lines, with a rule, with spans, with fences closed and unclosed
RepeatDocuments ==
  { << >>,
    << "a", NL, NL, "-", SP, "b" >>,
    << "-", "-", "-" >>,
    << SP, "a", SP, "*", "*", "b", "*", "*", SP, NL, "-", SP, "[", "x", "]", SP, "a" >>,
    << BT, BT, BT, "j", "s", NL, "#", SP, "a", NL, NL, BT, BT, BT, NL, "1", ".", SP, "a" >>,
    << BT, BT, BT >>,
    << "#", SP, "_", "a", "_", NL, BT, BT, BT, NL, "*", "x", "*" >>,
    << ">", SP, "a", NL, SP, NL, "-", "-", "-" >> }

\* the next call of markdownToBlocks or markdownToBlocksBatched, after the
\* return of either.  Every variable of the functions is a local of its
\* call; the model keeps what the earlier call left in them, which is the
\* least a new call can rely on.
CallAgain ==
  /\ pc \in {"returned", "done"}
  /\ content' \in RepeatDocuments
  /\ pc' = "start"
  /\ UNCHANGED << convVars, tokVars, batchVars, splitVars >>
  /\ UNCHANGED srvVars

\* parseInlineAnnotations as a function of its argument: the while loop
RECURSIVE tokenLoop(_, _)
tokenLoop(rem, segs) ==
  IF Len(rem) = 0 THEN segs
  ELSE LET match == patternExec(rem)
       IN  IF match.found
           THEN tokenLoop(rest(rem, match), segs \o pushed(rem, match))
           ELSE segs \o pushed(rem, match)

parseInlineAnnotations(t) == splitAll(tokenLoop(t, << >>))

\* one iteration of the outer while of markdownToBlocks, from the 0-based
\* index k with the blocks bs pushed so far: the index and the blocks after
scanStep(ls, k, bs) ==
  LET line == ls[k + 1]
      m    == fenceMatch(line)
      t    == Trim(line)
  IN  IF m.ok
      THEN LET closer == Min({j \in (k + 2)..Len(ls) : ls[j] = Fence}
                             \cup {Len(ls) + 1})
               code   == Join(SubSeq(ls, k + 2, closer - 1), << NL >>)
               lang   == IF m.text = << >> THEN PlainText ELSE m.text
           IN  [i |-> IF closer > Len(ls) THEN Len(ls) ELSE closer,
                blocks |-> Append(bs, makeBlock("code", {"rich_text", "language"},
                                                plainRichText(code), FALSE, lang))]
      ELSE IF t = << >> THEN [i |-> k + 1, blocks |-> bs]
      ELSE IF t = Rule
      THEN [i |-> k + 1,
            blocks |-> Append(bs, makeBlock("divider", {}, << >>, FALSE, << >>))]
      ELSE LET c == classifyLine(t)
           IN  [i |-> k + 1,
                blocks |-> Append(bs, richTextBlock(c.type,
                                                    parseInlineAnnotations(c.text),
                                                    c.hasChecked, c.checked))]

\* markdownToBlocks as a function of its argument: the outer while
RECURSIVE scanLoop(_, _, _)
scanLoop(ls, k, bs) ==
  IF k >= Len(ls) THEN bs
  ELSE LET after == scanStep(ls, k, bs)
       IN  scanLoop(ls, after.i, after.blocks)

markdownToBlocks(c) ==
  LET trimmed == Trim(c)
  IN  IF trimmed = << >> THEN << >> ELSE scanLoop(SplitLines(trimmed), 0, << >>)

\* markdownToBlocksBatched as a function of its argument
markdownToBlocksBatched(c) ==
  LET bs == markdownToBlocks(c)
      n  == (Len(bs) + BLOCKS_PER_BATCH - 1) \div BLOCKS_PER_BATCH
  IN  [k \in 1..n |->
         Slice(bs, (k - 1) * BLOCKS_PER_BATCH, k * BLOCKS_PER_BATCH)]

(***************************************************************************)
(* Inputs                                                                  *)
(***************************************************************************)
\* what a small document is made of: lines of every kind the classifiers
\* tell apart, near misses of each, and a closed fence
FragmentMenu ==
  { <<  >>,
    << "-", "-", "-" >>,
    << "-", "-", "-", "-" >>,
    << "#", SP, "a" >>,
    << "#", "#", SP, "*", "a", "*" >>,
    << "#", "#", "#", "#", SP, "a" >>,
    << "#", "#", "#", "#", "#", "#", "#", SP, "a" >>,
    << "#", "a" >>,
    << "#" >>,
    << "-", SP, "[", "x", "]", SP, "a" >>,
    << "*", SP, "[", SP, "]", SP, "*", "*", "a", "*", "*" >>,
    << "-", SP, "[", "X", "]", SP, "a" >>,
    << "-", SP, "[", "y", "]", SP, "a" >>,
    << "-", "[", "x", "]", SP, "a" >>,
    << "-", SP, "a" >>,
    << "*", SP, "a", "*" >>,
    << "-" >>,
    << "1", ".", SP, "a" >>,
    << "1", "2", ".", SP, "_", "a", "_" >>,
    << "1", ".", "a" >>,
    << ">", SP, "a" >>,
    << ">", "a" >>,
    << "a" >>,
    << SP, "a", SP, "*", "*", "b", "*", "*", SP >>,
    << "a", CR, "b" >>,
    << "~", "~", "a", "~", "~", SP, BT, "b", BT >>,
    << BT, BT, BT >>,
    << BT, BT, BT, "j", "s" >>,
    << SP, BT, BT, BT >>,
    << BT, BT, BT, "j", "s", NL, "#", SP, "a", NL, NL, BT, BT, BT >>,
    << BT, BT, BT, SP, "j", "s" >>,
    << TAB, "-", SP, "a", TAB >>,
    << "a", NL, NL, "-", SP, "b" >>,
    << "1", ".", SP, "a", NL, SP, TAB, CR, NL, ">", SP, "b" >> }

\* the concatenation of a sequence of strings
RECURSIVE Flatten(_)
Flatten(ss) == IF ss = << >> THEN << >> ELSE Head(ss) \o Flatten(Tail(ss))

\* the documents of 1..MaxLines fragments, one per line; the two-fragment
\* ones also with Windows line ends
SmallDocuments ==
  UNION { {Join(f, << NL >>) : f \in [1..n -> FragmentMenu]} : n \in 1..MaxLines }
  \cup { Join(f, << CR, NL >>) : f \in [1..2 -> FragmentMenu] }

\* lengths around the multiples of RICH_TEXT_MAX
LongLengths ==
  { k * RICH_TEXT_MAX + d : k \in 1..MaxChunks, d \in {-1, 0, 1} }

\* a long paragraph, a long bold span, a long heading with a span, and long
\* code in one line and in two
LongDocuments ==
  UNION { { Rep("a", n),
            << "*", "*" >> \o Rep("b", n) \o << "*", "*" >>,
            << "#", SP, "_" >> \o Rep("c", n) \o << "_", "a" >>,
            << BT, BT, BT, "j", "s", NL >> \o Rep("x", n) \o << NL, BT, BT, BT >>,
            << BT, BT, BT, NL, "*" >> \o Rep("x", n - 3) \o << "*", NL, "x" >> }
          : n \in LongLengths }

\* the decimal numeral of n >= 0
RECURSIVE Numeral(_)
Numeral(n) ==
  LET digit == << "0", "1", "2", "3", "4", "5", "6", "7", "8", "9" >>
  IN  IF n < 10 THEN << digit[n + 1] >>
      ELSE Append(Numeral(n \div 10), digit[(n % 10) + 1])

\* line counts around the multiples of BLOCKS_PER_BATCH
ManyCounts ==
  { k * BLOCKS_PER_BATCH + d : k \in 1..MaxBatches, d \in {-1, 0, 1} }

\* documents of n distinct one-block lines
ManyLineDocuments ==
  { Join([k \in 1..n |-> << "L" >> \o Numeral(k)], << NL >>) : n \in ManyCounts }

\* documents that trim to nothing, and white space around a document
EdgeDocuments ==
  { << >>, << SP >>, << SP, NL, NL, TAB >>, << NL, SP, "a", SP, NL >>,
    << SP, BT, BT, BT, NL, "a" >> }

\* documents for single cases: headings of every level and near misses,
\* runs of hyphens, to-do items, and fences closed, unclosed and empty
CaseDocuments ==
  { << "#", "#", "#", SP, "a" >>,
    << "#", "#", "#", "#", "#", SP, "a" >>,
    << "#", "#", "#", "#", "#", "#", SP, "a" >>,
    << "#", TAB, "a" >>,
    << "#", "#", "#", "a" >>,
    << "#", "#", SP >>,
    << "#", SP, "a", CR, "b" >>,
    << "-", "-", "-", "-", "-" >>,
    << SP, "-", "-", "-", TAB >>,
    << "-", "-" >>,
    << "-", SP, "-", "-" >>,
    << "-", SP, "[", "x", "]", SP, "D", "o", "n", "e", NL, "-", SP, "[", SP, "]", SP, "T", "o", "d", "o" >>,
    << "*", SP, SP, "[", "X", "]", TAB, "a" >>,
    << "-", SP, "[", SP, "]" >>,
    << "-", SP, "[", "x", "]", "a" >>,
    << BT, BT, BT, NL, SP, "*", "*", "a", "*", "*", SP, "_", "b", "_", NL, NL, "~", "~", "c", "~", "~", SP, BT, "d", BT, NL, BT, BT, BT, NL, "a" >>,
    << BT, BT, BT, "j", "s", NL, BT, BT, BT >>,
    << BT, BT, BT, "j", "s", NL, BT, BT, BT, NL, BT, BT, BT >>,
    << BT, BT, BT, NL, SP, BT, BT, BT, NL, "b" >>,
    << BT, BT, BT, NL, BT, BT, BT, "j", "s", NL, "x" >>,
    << "a", NL, BT, BT, BT, NL, NL, NL, "*", "b", "*" >> }

\* documents with fenced regions that hold a heading, a list item, a
\* divider, another opener and an indented closer, and lines after the
\* closer
FenceDocuments ==
  { << BT, BT, BT, NL, "#", SP, "a", NL, "-", SP, "b", NL, "-", "-", "-", NL,
       BT, BT, BT, "j", "s", NL, SP, BT, BT, BT, NL, BT, BT, BT, NL,
       "#", SP, "c" >>,
    << "a", NL, BT, BT, BT, "x", NL, ">", SP, "b", NL, "1", ".", SP, "c", NL,
       BT, BT, BT, NL, BT, BT, BT, NL, "-", "-", "-", NL, BT, BT, BT, NL,
       "-", "-", "-" >> }

Documents ==
  SmallDocuments \cup LongDocuments \cup ManyLineDocuments \cup EdgeDocuments
    \cup CaseDocuments \cup FenceDocuments

\* what an inline text is made of
PieceMenu ==
  { << "*", "*" >>, << "~", "~" >>, << BT >>, << "*" >>, << "_" >>, << "a" >> }

\* the inline texts of up to MaxPieces pieces, texts with a lone carriage
\* return, and long texts
InlineTexts ==
  UNION { {Flatten(f) : f \in [1..n -> PieceMenu]} : n \in 0..MaxPieces }
  \cup { << "a", CR, "b" >>, << "*", "a", CR, "b", "*" >>,
         << "*", "*", "a", CR, "*", "*", "b", "*", "*" >>,
         << "_", "a", SP, "*", "*", "b", "*", "*", SP, "c", "_" >>,
         << "*", "*", "a", SP, "*", "b", "*", SP, "c", "*", "*" >> }
  \cup UNION { { Rep("a", n),
                 << "a", "~", "~" >> \o Rep("b", n) \o << "~", "~", "a" >> }
               : n \in LongLengths }

\* the segments splitSegment is given: every annotation, contents of a few
\* characters and of lengths around the multiples of RICH_TEXT_MAX
SplitInputs ==
  { Segment(Rep("a", n), a) :
      n \in (0..3) \cup LongLengths
            \cup { k * RICH_TEXT_MAX + 500 : k \in 1..MaxChunks },
      a \in {{}} \cup {{f} : f \in Flags} \cup {{"bold", "italic"}} }

(***************************************************************************)
(* Specifications                                                          *)
(***************************************************************************)
Idle ==
  /\ lines = << >>
  /\ i = 0
  /\ blocks = << >>
  /\ language = << >>
  /\ codeLines = << >>
  /\ pending = NoPending
  /\ batches = << >>
  /\ bi = 0

\* a call of markdownToBlocksBatched(content)
Init ==
  /\ content \in Documents
  /\ pc = "start"
  /\ Idle
  /\ text = << >>
  /\ remaining = << >>
  /\ segments = << >>
  /\ result = << >>
  /\ seg = Segment(<< >>, {})
  /\ parts = << >>
  /\ ServerIdle

Next ==
  \/ Start
  \/ FenceOpen
  \/ FenceStep
  \/ FenceEmit
  \/ SkipBlank
  \/ Divider
  \/ CallTokenizer
  \/ TokStep
  \/ TokReturn
  \/ PushBlock
  \/ ScanExit
  \/ BatchStart
  \/ BatchStep
  \/ BatchExit

Spec == Init /\ [][Next]_vars

\* calls of markdownToBlocks and markdownToBlocksBatched one after another
InitRepeated ==
  /\ content \in RepeatDocuments
  /\ pc = "start"
  /\ Idle
  /\ text = << >>
  /\ remaining = << >>
  /\ segments = << >>
  /\ result = << >>
  /\ seg = Segment(<< >>, {})
  /\ parts = << >>
  /\ ServerIdle

NextRepeated == Next \/ CallAgain

SpecRepeated == InitRepeated /\ [][NextRepeated]_vars

\* a call of parseInlineAnnotations(text)
InitTokenize ==
  /\ text \in InlineTexts
  /\ remaining = text
  /\ segments = << >>
  /\ result = << >>
  /\ pc = "tok"
  /\ Idle
  /\ content = << >>
  /\ seg = Segment(<< >>, {})
  /\ parts = << >>
  /\ ServerIdle

NextTokenize == TokStep \/ TokReturn

SpecTokenize == InitTokenize /\ [][NextTokenize]_vars

\* a call of splitSegment(seg)
InitSplit ==
  /\ seg \in SplitInputs
  /\ parts = << >>
  /\ pc = "split"
  /\ Idle
  /\ content = << >>
  /\ text = << >>
  /\ remaining = << >>
  /\ segments = << >>
  /\ result = << >>
  /\ ServerIdle

NextSplit == SplitCall

SpecSplit == InitSplit /\ [][NextSplit]_vars

(***************************************************************************)
(* Properties                                                              *)
(***************************************************************************)
InTokenizer == pc \in {"tok", "tok_break", "tok_ret"}

\* a natural number that bounds the steps a call has left: the phase of the
\* call, then the lines (or blocks) still to be taken, then the position
\* within the current line, where the tokenizer loop counts down the length
\* of the remaining text
Measure ==
  LET B == Len(content) + 5
      phase == CASE pc = "start" -> 4
                 [] pc \in {"scan", "fence", "fence_exit",
                            "tok", "tok_break", "tok_ret"} -> 3
                 [] pc = "returned" -> 2
                 [] pc = "batch" -> 1
                 [] OTHER -> 0
      left == CASE phase = 3 -> Len(lines) - i
                [] phase = 1 -> (IF bi < Len(blocks) THEN Len(blocks) - bi ELSE 0)
                [] OTHER -> 0
      inner == CASE pc \in {"fence", "fence_exit"} -> Len(content) + 4
                 [] pc = "scan" -> Len(content) + 3
                 [] pc = "tok" -> Len(remaining) + 2
                 [] pc = "tok_break" -> 1
                 [] OTHER -> 0
  IN  (phase * B * B) + (left * B) + inner

\* C1: markdownToBlocks (and the batching after it) is total.  Every step
\* of a call strictly decreases a natural number, so no input makes the scan
\* run forever; the line index never goes back; every step that ends an
\* iteration of the outer scan has advanced the line index (the fence
\* iteration advances it at the opener); the fence loop advances one line
\* per iteration and is left only at the closer or at the end of the input;
\* every iteration of the tokenizer loop that continues has strictly
\* shortened the remaining text; and every step leads to a position of the
\* code from which the call goes on or has returned (there is no error
\* exit).
C1_Total ==
  /\ [][Measure' < Measure /\ Measure' >= 0]_vars
  /\ [][i' >= i]_vars
  /\ [][(pc = "scan" /\ pc' = "fence") => i' > i]_vars
  /\ [][(pc \in {"scan", "tok_ret"} /\ pc' = "scan") => i' > i]_vars
  /\ [][(pc = "fence" /\ pc' = "fence") => i' = i + 1]_vars
  /\ [][(pc = "fence" /\ pc' # "fence")
          => (i >= Len(lines) \/ lines[i + 1] = Fence)]_vars
  /\ [][(pc = "tok" /\ pc' = "tok") => Len(remaining') < Len(remaining)]_vars
  /\ [][\/ pc' \in {"scan", "fence", "fence_exit", "tok_break", "tok_ret",
                    "returned", "batch", "done"}
        \/ pc' = "tok" /\ blocks' = blocks]_vars

\* a call returned after a fence ran to the end of the input and a line
\* took more than one iteration of the tokenizer loop
C1_Witness ==
  /\ pc = "done"
  /\ Len(blocks) >= 2
  /\ blocks[Len(blocks)].type = "code"
  /\ \E k \in 1..Len(blocks) : Len(blocks[k].rich_text) >= 3
  /\ lines[Len(lines)] # Fence

\* the classifiers in the order of precedence, the first that matches the
\* trimmed line t
FirstClassifier(t) ==
  CASE t = << >> -> "blank"
    [] t = Rule -> "divider"
    [] headingMatch(t).ok -> "heading"
    [] todoMatch(t).ok -> "to_do"
    [] bulletMatch(t).ok -> "bulleted_list_item"
    [] numberedMatch(t).ok -> "numbered_list_item"
    [] quoteMatch(t).ok -> "quote"
    [] OTHER -> "paragraph"

\* the classifier a block type belongs to
ClassifierOf(type) ==
  IF type \in {"heading_1", "heading_2", "heading_3"} THEN "heading" ELSE type

\* C2: outside a fence a line is trimmed and yields at most one block, of
\* the kind of the first classifier that matches in the order blank,
\* horizontal rule, heading, to-do, bulleted, numbered, quote, paragraph.
\* A blank line yields no block, a rule yields a divider at once, any other
\* line goes to the tokenizer as the kind of its first classifier and is
\* pushed as one block of that kind; a line matching the to-do and the
\* bulleted pattern is a to_do, and a line matching no earlier pattern is a
\* paragraph whose text is the whole trimmed line.
C2_FirstMatchWins ==
  /\ [][(AtLine /\ ~fenceMatch(lines[i + 1]).ok) =>
          LET t == Trim(lines[i + 1])
              k == FirstClassifier(t)
          IN  /\ k = "blank" => (blocks' = blocks /\ pc' = "scan" /\ i' = i + 1)
              /\ k = "divider" =>
                   /\ Len(blocks') = Len(blocks) + 1
                   /\ SubSeq(blocks', 1, Len(blocks)) = blocks
                   /\ blocks'[Len(blocks')].type = "divider"
                   /\ pc' = "scan" /\ i' = i + 1
              /\ k \notin {"blank", "divider"} =>
                   /\ pc' = "tok"
                   /\ blocks' = blocks
                   /\ ClassifierOf(pending'.type) = k
                   /\ text' = pending'.text
              /\ (todoMatch(t).ok /\ bulletMatch(t).ok) => pending'.type = "to_do"
              /\ k = "paragraph" => text' = t]_vars
  /\ [][InTokenizer =>
          \/ blocks' = blocks /\ pending' = pending /\ i' = i
          \/ /\ pc = "tok_ret" /\ pc' = "scan" /\ i' = i + 1
             /\ Len(blocks') = Len(blocks) + 1
             /\ SubSeq(blocks', 1, Len(blocks)) = blocks
             /\ blocks'[Len(blocks')].type = pending.type
             /\ ClassifierOf(pending.type) = FirstClassifier(Trim(lines[i + 1]))]_vars

\* the tokenizer returned the text of a line that the to-do and the bulleted
\* pattern both match, for a document that also held a paragraph
C2_Witness ==
  /\ pc = "tok_ret"
  /\ todoMatch(Trim(lines[i + 1])).ok
  /\ bulletMatch(Trim(lines[i + 1])).ok
  /\ pending.type = "to_do"
  /\ \E k \in 1..Len(blocks) : blocks[k].type = "paragraph"

\* the contents of a sequence of segments, concatenated in order
RECURSIVE Contents(_)
Contents(segs) ==
  IF segs = << >> THEN << >> ELSE Head(segs).content \o Contents(Tail(segs))

\* the markers that can have stood around a segment with annotations a
MarkersOf(a) ==
  CASE a = {} -> { << >> }
    [] a = {"bold"} -> { << "*", "*" >> }
    [] a = {"strikethrough"} -> { << "~", "~" >> }
    [] a = {"code"} -> { << BT >> }
    [] a = {"italic"} -> { << "*" >>, << "_" >> }
    [] OTHER -> {}

\* t is the segments segs written out in order, each within its markers:
\* t is made of the contents and of markers, and of nothing else
RECURSIVE Marked(_, _)
Marked(segs, t) ==
  IF segs = << >> THEN t = << >>
  ELSE \E d \in MarkersOf(Head(segs).annotations) :
         LET w == d \o Head(segs).content \o d
         IN  /\ Len(w) <= Len(t)
             /\ SubSeq(t, 1, Len(w)) = w
             /\ Marked(Tail(segs), SubSeq(t, Len(w) + 1, Len(t)))

\* s ends with t
IsSuffix(t, s) ==
  Len(t) <= Len(s) /\ SubSeq(s, Len(s) - Len(t) + 1, Len(s)) = t

\* C3: for every line that yields a text-bearing block, the contents of
\* the block's rich-text segments, concatenated (which undoes the split at
\* 2000 characters), are the text of the trimmed line with the markers of
\* the recognised spans removed and nothing else: the text is exactly the
\* unsplit segments in order, each span within its markers, so that no
\* character is lost, duplicated or reordered.  The text is the end of the
\* trimmed line, and the whole of it for a paragraph.
C3_ContentPreserved ==
  /\ pc = "tok_ret" =>
       /\ Contents(result) = Contents(segments)
       /\ Marked(segments, text)
       /\ IsSuffix(text, Trim(lines[i + 1]))
       /\ pending.type = "paragraph" => text = Trim(lines[i + 1])
  /\ (/\ pc \in {"scan", "returned", "batch", "done"}
      /\ blocks # << >>
      /\ blocks[Len(blocks)].type \notin {"divider", "code"}) =>
       /\ Contents(blocks[Len(blocks)].rich_text) = Contents(segments)
       /\ Marked(segments, text)

\* the block of a line with a span longer than 2000 characters and text
\* after it has been pushed
C3_Witness ==
  /\ pc = "scan"
  /\ blocks # << >>
  /\ blocks[Len(blocks)].type = "heading_1"
  /\ Len(blocks[Len(blocks)].rich_text) > Len(segments)
  /\ Len(segments) >= 2
  /\ segments[1].annotations = {"italic"}

\* C4: for a non-empty block sequence, the batches returned by
\* markdownToBlocksBatched concatenate, in order, to exactly the blocks
\* returned by markdownToBlocks (none dropped, repeated or moved), every
\* batch holds at most 100 blocks, and every batch but the last holds
\* exactly 100; 101 blocks give batches of 100 and 1.
C4_Batches ==
  (pc = "done" /\ blocks # << >>) =>
    /\ Flatten(batches) = blocks
    /\ \A k \in 1..Len(batches) : Len(batches[k]) <= BLOCKS_PER_BATCH
    /\ \A k \in 1..(Len(batches) - 1) : Len(batches[k]) = BLOCKS_PER_BATCH
    /\ batches # << >>
    /\ batches[Len(batches)] # << >>
    /\ Len(blocks) = BLOCKS_PER_BATCH + 1 =>
         (Len(batches) = 2 /\ Len(batches[1]) = BLOCKS_PER_BATCH
                           /\ Len(batches[2]) = 1)

\* 101 distinct blocks were batched
C4_Witness ==
  /\ pc = "done"
  /\ Len(blocks) = BLOCKS_PER_BATCH + 1
  /\ Len(batches) = 2
  /\ \A j, k \in 1..Len(blocks) : j # k => blocks[j] # blocks[k]

\* C5: splitSegment of a segment longer than 2000 characters returns
\* ceil(length / 2000) segments, all but the last of exactly 2000
\* characters and the last of 1 to 2000, each with the annotations of the
\* original, whose contents concatenate to the original content; a segment
\* of at most 2000 characters is returned unchanged as the only element.
C5_Split ==
  pc = "split_ret" =>
    LET n == Len(seg.content)
    IN  IF n > RICH_TEXT_MAX
        THEN /\ Len(parts) = (n + RICH_TEXT_MAX - 1) \div RICH_TEXT_MAX
             /\ \A k \in 1..(Len(parts) - 1) :
                  Len(parts[k].content) = RICH_TEXT_MAX
             /\ Len(parts[Len(parts)].content) \in 1..RICH_TEXT_MAX
             /\ \A k \in 1..Len(parts) :
                  /\ parts[k].annotations = seg.annotations
                  /\ parts[k].type = "text"
             /\ Contents(parts) = seg.content
        ELSE parts = << seg >>

\* an annotated segment was split into three or more parts, the last short
C5_Witness ==
  /\ pc = "split_ret"
  /\ Len(parts) >= 3
  /\ seg.annotations = {"bold"}
  /\ Len(parts[Len(parts)].content) < RICH_TEXT_MAX

\* C6: every rich-text segment of every block markdownToBlocks has built,
\* of every kind, code blocks included, holds at most 2000 characters, at
\* every moment of the call and in the batches returned.
C6_SegmentsBounded ==
  /\ \A k \in 1..Len(blocks) :
       \A j \in 1..Len(blocks[k].rich_text) :
         Len(blocks[k].rich_text[j].content) <= RICH_TEXT_MAX
  /\ \A b \in 1..Len(batches) :
       \A k \in 1..Len(batches[b]) :
         \A j \in 1..Len(batches[b][k].rich_text) :
           Len(batches[b][k].rich_text[j].content) <= RICH_TEXT_MAX

\* a call returned a code block whose content was split, with a full
\* segment of 2000 characters
C6_Witness ==
  /\ pc = "done"
  /\ \E k \in 1..Len(blocks) :
       /\ blocks[k].type = "code"
       /\ Len(blocks[k].rich_text) >= 2
       /\ Len(blocks[k].rich_text[1].content) = RICH_TEXT_MAX
       /\ Len(Contents(blocks[k].rich_text)) > RICH_TEXT_MAX

\* what a step of the tokenizer has appended to segments
Appended == SubSeq(segments', Len(segments) + 1, Len(segments'))

\* an iteration of the tokenizer loop that found a span and goes on
SpanStep == pc = "tok" /\ pc' = "tok"

\* in a SpanStep: the segment of the span, the text before it, and the
\* position (1-based) in remaining where the span starts
SpanSegment == segments'[Len(segments')]
TextBefore == IF Len(Appended) = 2 THEN Appended[1].content ELSE << >>
SpanStart == Len(TextBefore) + 1

Bold == << "*", "*" >>

\* x within markers d
Within(d, x) == d \o x \o d

\* C7: the bold pattern is tried before the italic pattern at every scan
\* position.  Whenever the span found by an iteration starts where the bold
\* pattern matches, the iteration emits one segment with bold true whose
\* content is the text up to the nearest closing double asterisk, and goes
\* on after that closer; an italic segment is emitted only where the bold
\* pattern does not match.  A text that is x within double asterisks, x
\* without asterisk or line terminator, gives exactly one segment, bold,
\* with content x, and no italic segment.
C7_BoldBeforeItalic ==
  /\ [][SpanStep =>
          /\ AltMatches(remaining, SpanStart, Bold) =>
               LET q == Min(Closers(remaining, SpanStart, Bold))
               IN  /\ SpanSegment.annotations = {"bold"}
                   /\ SpanSegment.content = SubSeq(remaining, SpanStart + 2, q - 1)
                   /\ remaining' = SubSeq(remaining, q + 2, Len(remaining))
          /\ SpanSegment.annotations = {"italic"} =>
               ~AltMatches(remaining, SpanStart, Bold)]_vars
  /\ [](pc = "tok_ret" =>
          LET n == Len(text) - 4
              x == SubSeq(text, 3, n + 2)
          IN  (/\ n >= 1
               /\ text = Within(Bold, x)
               /\ \A k \in 1..n : x[k] \notin {"*"} \cup LineTerminators) =>
                  /\ segments = << Segment(x, {"bold"}) >>
                  /\ Contents(result) = x
                  /\ \A k \in 1..Len(result) : result[k].annotations = {"bold"})

\* the tokenizer returned one bold segment for a text that opens with two
\* asterisks, where the italic pattern matches too
C7_Witness ==
  /\ pc = "tok_ret"
  /\ text = Within(Bold, << "a" >>)
  /\ AltMatches(text, 1, << "*" >>)
  /\ result = << Segment(<< "a" >>, {"bold"}) >>

\* x has no double asterisk that closes a bold span before its end
NoBoldCloser(x) ==
  \A k \in 2..Len(x) : ~(x[k] = "*" /\ (k = Len(x) \/ x[k + 1] = "*"))

\* C8: nested or overlapping markup is not interpreted.  An iteration that
\* finds a span appends at most one plain segment (the text before the
\* span) and exactly one annotated segment, whose content is the text
\* between the span's markers character for character, markers included,
\* and the scan goes on after the closing marker, so that nothing between
\* the markers gives a segment of its own.  A text that is x within
\* underscores (x without underscore) is one italic segment with content x
\* whatever bold markup x holds, and a text that is x within double
\* asterisks is one bold segment with content x whatever single asterisks
\* x holds short of a closing double asterisk.
C8_InnerMarkersLiteral ==
  /\ [][SpanStep =>
          /\ Len(Appended) \in {1, 2}
          /\ SubSeq(segments', 1, Len(segments)) = segments
          /\ Len(Appended) = 2 =>
               (Appended[1].annotations = {} /\ Appended[1].content # << >>)
          /\ SpanSegment.annotations # {}
          /\ \E d \in MarkersOf(SpanSegment.annotations) :
               remaining = TextBefore \o Within(d, SpanSegment.content)
                             \o remaining']_vars
  /\ [](pc = "tok_ret" =>
          /\ LET n == Len(text) - 2
                 x == SubSeq(text, 2, n + 1)
             IN  (/\ n >= 1
                  /\ text = Within(<< "_" >>, x)
                  /\ \A k \in 1..n : x[k] \notin {"_"} \cup LineTerminators) =>
                   segments = << Segment(x, {"italic"}) >>
          /\ LET n == Len(text) - 4
                 x == SubSeq(text, 3, n + 2)
             IN  (/\ n >= 1
                  /\ text = Within(Bold, x)
                  /\ NoBoldCloser(x)
                  /\ \A k \in 1..n : x[k] \notin LineTerminators) =>
                   segments = << Segment(x, {"bold"}) >>)

\* the tokenizer returned a single italic segment that holds a bold span
\* as literal text
C8_Witness ==
  /\ pc = "tok_ret"
  /\ Len(segments) = 1
  /\ segments[1].annotations = {"italic"}
  /\ \E k \in 1..(Len(segments[1].content) - 4) :
       /\ SubSeq(segments[1].content, k, k + 1) = Bold
       /\ SubSeq(segments[1].content, k + 3, k + 4) = Bold
  /\ text = Within(<< "_" >>, segments[1].content)

C10_OneFlagPerSpan ==
  /\ [][SpanStep =>
          LET c == remaining[SpanStart]
              n == Len(remaining) - Len(remaining') - Len(TextBefore)
                     - Len(SpanSegment.content)
          IN  /\ Cardinality(SpanSegment.annotations) = 1
              /\ SpanSegment.annotations \subseteq Flags
              /\ SpanSegment.content # << >>
              /\ c = "_" => SpanSegment.annotations = {"italic"} /\ n = 2
              /\ c = "~" => SpanSegment.annotations = {"strikethrough"} /\ n = 4
              /\ c = BT => SpanSegment.annotations = {"code"} /\ n = 2
              /\ c = "*" =>
                   \/ SpanSegment.annotations = {"italic"} /\ n = 2
                   \/ SpanSegment.annotations = {"bold"} /\ n = 4
              /\ c \in {"_", "~", BT, "*"}
              /\ \A k \in 1..(Len(Appended) - 1) : Appended[k].annotations = {}]_vars
  /\ [][(pc = "tok" /\ pc' = "tok_break") =>
          Appended = << Segment(remaining, {}) >>]_vars
  /\ [](pc = "tok_ret" =>
          /\ \A k \in 1..Len(result) :
               /\ Cardinality(result[k].annotations) <= 1
               /\ result[k].annotations \subseteq Flags
               /\ result[k].content # << >>)

\* the tokenizer returned an italic segment for a span within underscores
\* and a plain segment for the text after it
C10_Witness ==
  /\ pc = "tok_ret"
  /\ Len(text) >= 1
  /\ text[1] = "_"
  /\ Len(segments) >= 2
  /\ segments[1].annotations = {"italic"}
  /\ segments[Len(segments)].annotations = {}

\* the call of markdownToBlocks has returned
Returned == pc \in {"returned", "batch", "done"}

\* the tag after the fence marker of an opener, and the language it gives
TagOf(line) == SubSeq(line, 4, Len(line))
LanguageOf(line) == IF TagOf(line) = << >> THEN PlainText ELSE TagOf(line)

\* no line of lines[from..] is the closing fence
NoCloserFrom(from) == \A k \in from..Len(lines) : lines[k] # Fence

\* C11: a fence opener with no closing fence before the end of the input
\* gives exactly one code block, whose content is all the lines after the
\* opener joined with newline and whose language is the tag after the
\* fence marker, or "plain text" when the tag is empty; the call goes on
\* to its return (there is no error exit).  When the fence loop runs out
\* of lines, the step appends that one block; a document whose first line
\* is an opener and that has no closer returns exactly that one block.
C11_UnclosedFence ==
  /\ [][(pc = "fence" /\ i >= Len(lines)) =>
          LET o == Len(lines) - Len(codeLines)
              b == blocks'[Len(blocks')]
          IN  /\ o >= 1
              /\ fenceMatch(lines[o]).ok
              /\ NoCloserFrom(o + 1)
              /\ Len(blocks') = Len(blocks) + 1
              /\ SubSeq(blocks', 1, Len(blocks)) = blocks
              /\ b.type = "code"
              /\ Contents(b.rich_text) = Join(SubSeq(lines, o + 1, Len(lines)), << NL >>)
              /\ b.language = LanguageOf(lines[o])
              /\ pc' = "scan"]_vars
  /\ []((/\ Returned
         /\ lines # << >>
         /\ fenceMatch(lines[1]).ok
         /\ NoCloserFrom(2)) =>
          /\ Len(blocks) = 1
          /\ blocks[1].type = "code"
          /\ Contents(blocks[1].rich_text) = Join(Tail(lines), << NL >>)
          /\ blocks[1].language = LanguageOf(lines[1]))

\* a call returned one code block for an opener with a tag, three lines
\* after it, one of them blank, and no closer
C11_Witness ==
  /\ pc = "done"
  /\ Len(lines) = 4
  /\ fenceMatch(lines[1]).ok
  /\ TagOf(lines[1]) # << >>
  /\ NoCloserFrom(2)
  /\ lines[3] = << >>
  /\ Len(blocks) = 1
  /\ blocks[1].language = TagOf(lines[1])

\* the index of the first closing fence after line 1, or one past the end
FirstCloser ==
  Min({k \in 2..Len(lines) : lines[k] = Fence} \cup {Len(lines) + 1})

\* C12: the content of a code block is the lines between the opener and
\* the closer (or the end of the input) as they stand, blank lines and
\* white space included, joined with newline.  It never goes through the
\* inline tokenizer: no step inside a fence enters the tokenizer or touches
\* its state, and every rich-text segment of every code block is
\* unannotated, whatever markers the code holds.
C12_CodeVerbatim ==
  /\ [][(pc \in {"fence", "fence_exit"}) =>
          (pc' \in {"fence", "fence_exit", "scan"} /\ UNCHANGED tokVars)]_vars
  /\ [](\A k \in 1..Len(blocks) :
          blocks[k].type = "code" =>
            /\ blocks[k].keys = {"rich_text", "language"}
            /\ \A j \in 1..Len(blocks[k].rich_text) :
                 blocks[k].rich_text[j].annotations = {})
  /\ []((/\ Returned
         /\ lines # << >>
         /\ fenceMatch(lines[1]).ok) =>
          /\ blocks # << >>
          /\ blocks[1].type = "code"
          /\ Contents(blocks[1].rich_text)
               = Join(SubSeq(lines, 2, FirstCloser - 1), << NL >>))

\* a call returned a code block closed by a fence, whose lines hold
\* markers, leading white space and a blank line, as one unannotated
\* segment, and a paragraph after it
C12_Witness ==
  /\ pc = "done"
  /\ Len(lines) = 6
  /\ lines[1] = Fence
  /\ lines[5] = Fence
  /\ lines[2][1] = SP
  /\ SubSeq(lines[2], 2, 3) = Bold
  /\ lines[3] = << >>
  /\ Len(blocks) = 2
  /\ blocks[1].rich_text
       = << Segment(Join(SubSeq(lines, 2, 4), << NL >>), {}) >>

\* the line the tokenizer is working for, trimmed
CurrentLine == Trim(lines[i + 1])

\* the count of leading '#' of t, the white space after them, and the rest
Hashes(t) == Run(t, 1, {"#"})
GapAfterHashes(t) == Run(t, Hashes(t) + 1, WhiteSpace)
AfterHashes(t) == SubSeq(t, Hashes(t) + GapAfterHashes(t) + 1, Len(t))

\* t has no line terminator (a lone carriage return can stand in a line)
OneLine(t) == \A k \in 1..Len(t) : t[k] \notin LineTerminators

\* t is 1 to 6 '#', white space, and text
HeadingShape(t) ==
  /\ Hashes(t) \in 1..6
  /\ GapAfterHashes(t) >= 1
  /\ AfterHashes(t) # << >>
  /\ OneLine(AfterHashes(t))

\* min(number of leading '#', 3), as a block type
ClampedHeading(h) ==
  CASE h = 1 -> "heading_1"
    [] h = 2 -> "heading_2"
    [] h \in 3..6 -> "heading_3"

\* C13: the heading level is min(number of leading '#', 3).  A line of 1,
\* 2 or 3 '#', white space and text (text in the sense of the pattern: up
\* to the end of the line, without a line terminator) is tokenized and
\* pushed as heading_1, heading_2, heading_3 respectively, and a line of
\* 4, 5 or 6 '#', white space and text as heading_3; the text tokenized is
\* what follows the white space.
C13_HeadingClamp ==
  /\ [](InTokenizer =>
          (HeadingShape(CurrentLine) =>
             /\ pending.type = ClampedHeading(Hashes(CurrentLine))
             /\ text = AfterHashes(CurrentLine)))
  /\ [][(pc = "tok_ret" /\ HeadingShape(CurrentLine)) =>
          /\ Len(blocks') = Len(blocks) + 1
          /\ blocks'[Len(blocks')].type = ClampedHeading(Hashes(CurrentLine))
          /\ blocks'[Len(blocks')].keys = {"rich_text"}
          /\ Contents(blocks'[Len(blocks')].rich_text) = Contents(segments)]_vars

\* the text of a line of six '#', a space and text has been tokenized for a
\* heading_3
C13_Witness ==
  /\ pc = "tok_ret"
  /\ Hashes(CurrentLine) = 6
  /\ HeadingShape(CurrentLine)
  /\ pending.type = "heading_3"
  /\ result = << Segment(<< "a" >>, {}) >>

\* C14: a line that starts with '#' characters with no white space after
\* them (and so no heading text) is not a heading: it is tokenized and
\* pushed as a paragraph whose text is the whole trimmed line, the '#'
\* characters included.
C14_HashWithoutSpace ==
  /\ [](InTokenizer =>
          ((Hashes(CurrentLine) >= 1 /\ GapAfterHashes(CurrentLine) = 0) =>
             /\ pending.type = "paragraph"
             /\ text = CurrentLine
             /\ text[1] = "#"
             /\ pc = "tok_ret" => Marked(segments, CurrentLine)))
  /\ [][(/\ pc = "tok_ret"
         /\ Hashes(CurrentLine) >= 1
         /\ GapAfterHashes(CurrentLine) = 0) =>
          /\ Len(blocks') = Len(blocks) + 1
          /\ blocks'[Len(blocks')].type = "paragraph"
          /\ Contents(blocks'[Len(blocks')].rich_text) = Contents(segments)]_vars

\* a line of three '#' and a letter has been tokenized as a paragraph with
\* the '#' in its one segment
C14_Witness ==
  /\ pc = "tok_ret"
  /\ CurrentLine = << "#", "#", "#", "a" >>
  /\ pending.type = "paragraph"
  /\ result = << Segment(CurrentLine, {}) >>

ThreeHyphens == << "-", "-", "-" >>

\* t is n hyphens and nothing else
Hyphens(t, n) == Len(t) = n /\ \A k \in 1..n : t[k] = "-"

\* a step has appended one block to blocks
Pushes == Len(blocks') = Len(blocks) + 1 /\ SubSeq(blocks', 1, Len(blocks)) = blocks

\* C15: a line whose trimmed text is exactly three hyphens gives a divider
\* block with no rich text (an empty payload), at once and without the
\* tokenizer; a line of four or more hyphens gives a paragraph block over
\* the whole run; and a divider is pushed for no other line.
C15_DividerExactlyThree ==
  /\ [][(AtLine /\ ~fenceMatch(lines[i + 1]).ok /\ CurrentLine = ThreeHyphens) =>
          /\ Pushes
          /\ blocks'[Len(blocks')].type = "divider"
          /\ blocks'[Len(blocks')].keys = {}
          /\ blocks'[Len(blocks')].rich_text = << >>
          /\ pc' = "scan"
          /\ i' = i + 1]_vars
  /\ [][(Len(blocks') > Len(blocks) /\ blocks'[Len(blocks')].type = "divider") =>
          (AtLine /\ CurrentLine = ThreeHyphens)]_vars
  /\ [][(/\ AtLine
         /\ Len(CurrentLine) >= 4
         /\ Hyphens(CurrentLine, Len(CurrentLine))) =>
          (blocks' = blocks /\ pc' = "tok" /\ pending'.type = "paragraph"
                            /\ text' = CurrentLine)]_vars
  /\ [][(/\ pc = "tok_ret"
         /\ Len(CurrentLine) >= 4
         /\ Hyphens(CurrentLine, Len(CurrentLine))) =>
          /\ Pushes
          /\ blocks'[Len(blocks')].type = "paragraph"
          /\ blocks'[Len(blocks')].rich_text = << Segment(CurrentLine, {}) >>]_vars

\* a call returned a divider for three hyphens and a paragraph for four
C15_Witness ==
  /\ pc = "done"
  /\ Len(lines) = 2
  /\ Hyphens(Trim(lines[1]), 3)
  /\ Hyphens(Trim(lines[2]), 4)
  /\ Len(blocks) = 2
  /\ blocks[1].type = "divider"
  /\ blocks[1].rich_text = << >>
  /\ blocks[2].type = "paragraph"

\* the parts of a to-do line t: the white space after the bullet marker,
\* the check mark, the white space after the checkbox, the text
GapAfterBullet(t) == Run(t, 2, WhiteSpace)
CheckMark(t) == At(t, GapAfterBullet(t) + 3)
GapAfterBox(t) == Run(t, GapAfterBullet(t) + 5, WhiteSpace)
AfterBox(t) == SubSeq(t, GapAfterBullet(t) + GapAfterBox(t) + 5, Len(t))

\* t is a bullet marker, white space, a checkbox, white space and text
TodoShape(t) ==
  /\ At(t, 1) \in {"-", "*"}
  /\ GapAfterBullet(t) >= 1
  /\ At(t, GapAfterBullet(t) + 2) = "["
  /\ CheckMark(t) \in {" ", "x", "X"}
  /\ At(t, GapAfterBullet(t) + 4) = "]"
  /\ GapAfterBox(t) >= 1
  /\ AfterBox(t) # << >>
  /\ OneLine(AfterBox(t))

DoneTodo ==
  << "-", SP, "[", "x", "]", SP, "D", "o", "n", "e", NL,
     "-", SP, "[", SP, "]", SP, "T", "o", "d", "o" >>

\* C16: a line made of a bullet marker ('-' or '*'), a checkbox and text
\* gives a to_do block whose checked flag is true exactly when the mark is
\* 'x' or 'X' and false when it is a space, and whose rich text is the
\* text after the checkbox: the marker and the checkbox are no part of
\* it.  "- [x] Done" and "- [ ] Todo" on two lines give two to_do blocks,
\* checked and unchecked, each with one plain segment.
C16_TodoChecked ==
  /\ [](InTokenizer =>
          (TodoShape(CurrentLine) =>
             /\ pending.type = "to_do"
             /\ pending.hasChecked
             /\ pending.checked = (CheckMark(CurrentLine) \in {"x", "X"})
             /\ CheckMark(CurrentLine) = " " => ~pending.checked
             /\ text = AfterBox(CurrentLine)))
  /\ [][(pc = "tok_ret" /\ TodoShape(CurrentLine)) =>
          /\ Pushes
          /\ blocks'[Len(blocks')].type = "to_do"
          /\ blocks'[Len(blocks')].keys = {"rich_text", "checked"}
          /\ blocks'[Len(blocks')].checked = (CheckMark(CurrentLine) \in {"x", "X"})
          /\ Contents(blocks'[Len(blocks')].rich_text) = Contents(segments)
          /\ Marked(segments, AfterBox(CurrentLine))]_vars
  /\ []((Returned /\ content = DoneTodo) =>
          /\ Len(blocks) = 2
          /\ blocks[1].type = "to_do" /\ blocks[1].checked
          /\ blocks[1].rich_text = << Segment(<< "D", "o", "n", "e" >>, {}) >>
          /\ blocks[2].type = "to_do" /\ ~blocks[2].checked
          /\ blocks[2].rich_text = << Segment(<< "T", "o", "d", "o" >>, {}) >>)

\* the text of a to-do line with the mark 'X', an asterisk as marker and
\* more than one white space character has been tokenized
C16_Witness ==
  /\ pc = "tok_ret"
  /\ TodoShape(CurrentLine)
  /\ CurrentLine[1] = "*"
  /\ CheckMark(CurrentLine) = "X"
  /\ GapAfterBullet(CurrentLine) = 2
  /\ pending.checked
  /\ result = << Segment(<< "a" >>, {}) >>

\* C17: every non-divider block markdownToBlocks has built, for any input,
\* carries a rich-text sequence with at least one segment (an empty code
\* block carries one segment with empty content); a divider block carries
\* no rich text.
C17_RichTextNonEmpty ==
  \A k \in 1..Len(blocks) :
    IF blocks[k].type = "divider"
    THEN blocks[k].keys = {} /\ blocks[k].rich_text = << >>
    ELSE "rich_text" \in blocks[k].keys /\ Len(blocks[k].rich_text) >= 1

\* a call returned a divider and the code block of an empty fence
C17_Witness ==
  /\ pc = "done"
  /\ Len(blocks) = 2
  /\ blocks[1].type = "divider"
  /\ blocks[2].type = "code"
  /\ blocks[2].rich_text = << Segment(<< >>, {}) >>

\* s is empty or white space only
AllWhite(s) == \A k \in 1..Len(s) : s[k] \in WhiteSpace

\* the lines that are not blank
TextLines == {k \in 1..Len(lines) : ~AllWhite(lines[k])}

\* no line opens a fence
FenceFree == \A k \in 1..Len(lines) : ~fenceMatch(lines[k]).ok

\* C18: markdownToBlocks returns the empty sequence when the input is
\* empty or white space only; any input with a character that is not
\* white space gives at least one block; and blank lines give no block: a
\* document without a fence returns one block for each line that is not
\* blank, and none for the others.
C18_EmptyAndBlank ==
  Returned =>
    /\ AllWhite(content) => blocks = << >>
    /\ ~AllWhite(content) =>
         /\ Len(blocks) >= 1
         /\ Len(blocks) <= Cardinality(TextLines)
         /\ FenceFree => Len(blocks) = Cardinality(TextLines)

\* a call returned two blocks for three lines, the middle one of white
\* space only
C18_Witness ==
  /\ pc = "done"
  /\ Len(lines) = 3
  /\ lines[2] # << >>
  /\ AllWhite(lines[2])
  /\ FenceFree
  /\ Len(blocks) = 2

\* C19: markdownToBlocksBatched never returns an empty batch.  An empty or
\* white-space-only input gives the empty sequence of batches, not one
\* empty batch, and a block count that is a multiple of 100 gives
\* count / 100 batches of exactly 100 and no empty batch after them.
C19_NoEmptyBatch ==
  pc = "done" =>
    /\ \A k \in 1..Len(batches) : batches[k] # << >>
    /\ AllWhite(content) => batches = << >>
    /\ blocks = << >> => batches = << >>
    /\ Len(blocks) % BLOCKS_PER_BATCH = 0 =>
         /\ Len(batches) = Len(blocks) \div BLOCKS_PER_BATCH
         /\ \A k \in 1..Len(batches) : Len(batches[k]) = BLOCKS_PER_BATCH

\* 200 blocks were returned in two batches
C19_Witness ==
  /\ pc = "done"
  /\ Len(blocks) = 2 * BLOCKS_PER_BATCH
  /\ Len(batches) = 2
  /\ Len(batches[2]) = BLOCKS_PER_BATCH

\* C20: the conversion keeps nothing from one invocation to the next.
\* However many calls of markdownToBlocks or markdownToBlocksBatched, on
\* whatever inputs, came before it, a call returns the blocks, and the
\* batches, that are a function of its own argument alone: the same as
\* when it is the first call.  (RICH_TEXT_MAX and BLOCKS_PER_BATCH are
\* const bindings of numbers, which no statement assigns.)
C20_Stateless ==
  /\ Returned => blocks = markdownToBlocks(content)
  /\ pc = "done" => batches = markdownToBlocksBatched(content)

\* a call returned blocks for a document without a fence and without a
\* span, after an earlier call on a document with a fence and a span
C20_Witness ==
  /\ pc = "done"
  /\ ~AllWhite(content)
  /\ FenceFree
  /\ language # << >>
  /\ blocks # << >>
  /\ \A k \in 1..Len(blocks) : blocks[k].type = "divider"
  /\ segments # << >>

\* line k is scanned in fence mode: a fence was opened before it and not
\* closed by a line that is exactly the fence
RECURSIVE InFence(_)
InFence(k) ==
  IF k = 1 THEN FALSE
  ELSE IF InFence(k - 1) THEN lines[k - 1] # Fence
       ELSE fenceMatch(lines[k - 1]).ok

\* the lines that open a fenced region, and the non-blank lines outside
\* every region
Openers == {k \in 1..Len(lines) : ~InFence(k) /\ fenceMatch(lines[k]).ok}
Outside ==
  {k \in 1..Len(lines) :
     ~InFence(k) /\ ~fenceMatch(lines[k]).ok /\ ~AllWhite(lines[k])}

\* the j-th element of a set of numbers
Nth(S, j) == CHOOSE x \in S : Cardinality({y \in S : y < x}) = j - 1

\* the line that closes the region opened at o, or one past the last line
CloserOf(o) ==
  Min({k \in (o + 1)..Len(lines) : lines[k] = Fence} \cup {Len(lines) + 1})

\* the block type normal classification gives a non-blank line
NormalType(line) ==
  IF Trim(line) = Rule THEN "divider" ELSE classifyLine(Trim(line)).type

\* C26: once a fence opener is seen the scanner stays in fence mode until
\* a line that is exactly three backticks or the end of the input.  A step
\* in fence mode on any other line (a heading, a list item, a divider,
\* another opener, an indented closer) adds that line to the code and
\* pushes no block, and fence mode is left only at the closer or at the
\* end.  A returned call has one block per opener and per non-blank line
\* outside the regions, in line order: a code block holding the lines
\* between the opener and its closer for each region, and for a line
\* outside (the line after a closer included) the block normal
\* classification gives it.
C26_FenceMode ==
  /\ [][(pc = "fence" /\ i < Len(lines) /\ lines[i + 1] # Fence) =>
          /\ pc' = "fence"
          /\ blocks' = blocks
          /\ codeLines' = Append(codeLines, lines[i + 1])
          /\ i' = i + 1]_vars
  /\ [][(pc = "fence" /\ pc' # "fence") =>
          /\ \/ i >= Len(lines) /\ pc' = "scan"
             \/ i < Len(lines) /\ lines[i + 1] = Fence /\ pc' = "fence_exit"
          /\ Len(blocks') <= Len(blocks) + 1]_vars
  /\ []((Returned /\ ~FenceFree) =>
          LET P == Openers \cup Outside
          IN  /\ Len(blocks) = Cardinality(P)
              /\ \A j \in 1..Len(blocks) :
                   LET k == Nth(P, j)
                   IN  IF k \in Openers
                       THEN /\ blocks[j].type = "code"
                            /\ Contents(blocks[j].rich_text)
                                 = Join(SubSeq(lines, k + 1, CloserOf(k) - 1),
                                        << NL >>)
                       ELSE blocks[j].type = NormalType(lines[k]))

\* a call returned a code block for a region holding a heading, a list
\* item, a divider, an opener with a tag and an indented closer, and a
\* heading for the line after the closer
C26_Witness ==
  /\ pc = "done"
  /\ Len(lines) = 8
  /\ lines[1] = Fence
  /\ lines[2] = << "#", SP, "a" >>
  /\ lines[3] = << "-", SP, "b" >>
  /\ lines[4] = Rule
  /\ lines[5] = Fence \o << "j", "s" >>
  /\ lines[6] = << SP >> \o Fence
  /\ lines[7] = Fence
  /\ Len(blocks) = 2
  /\ blocks[1].type = "code"
  /\ Contents(blocks[1].rich_text) = Join(SubSeq(lines, 2, 6), << NL >>)
  /\ blocks[2].type = "heading_1"

(***************************************************************************)
(* notion-client: NotionClientError, NotionClient, getNotionClient         *)
(***************************************************************************)
LIST_PAGES_MAX == 20

MaxPageSize == 2

NotionClientError(message, status, code, details) ==
  [name |-> "NotionClientError", message |-> message, status |-> status,
   code |-> code, details |-> details]

\* what getToken throws
TokenError ==
  [name |-> "Error",
   message |-> "NOTION_TOKEN environment variable is required",
   status |-> 0, code |-> "", details |-> NoDetails]

\* an error of the transport: with a response (status, body), or without
AxiosError(hasResponse, status, data, message) ==
  [response |-> [defined |-> hasResponse, status |-> status, data |-> data],
   message |-> message]

\* handleError that takes message and code as they come
handleErrorNoDefaults(error) ==
  IF error.response.defined
  THEN LET data == error.response.data
       IN  NotionClientError(data.message.value, error.response.status,
                             data.code.value, [defined |-> TRUE, value |-> data])
  ELSE NotionClientError(error.message.value, 0, "network_error", NoDetails)

\* handleError: what the client method throws for an error of the transport
handleError(error) ==
  IF error.response.defined
  THEN LET data == error.response.data
       IN  NotionClientError(OrElse(data.message, "Notion API error"),
                             error.response.status,
                             OrElse(data.code, "unknown_error"),
                             [defined |-> TRUE, value |-> data])
  ELSE NotionClientError(OrElse(error.message, "Network error"),
                         0, "network_error", NoDetails)

\* getNotionClient that constructs a client at every call
getNotionClientUncached ==
  IF Truthy(env.NOTION_TOKEN)
  THEN [threw |-> FALSE, client |-> instances + 1,
        cached |-> instances + 1, made |-> instances + 1]
  ELSE [threw |-> TRUE, client |-> 0, cached |-> clientInstance,
        made |-> instances]

\* getNotionClient: the client returned, or the throw of the constructor,
\* with the singleton and the count of constructed clients after the call
getNotionClient ==
  IF clientInstance # 0
  THEN [threw |-> FALSE, client |-> clientInstance,
        cached |-> clientInstance, made |-> instances]
  ELSE IF Truthy(env.NOTION_TOKEN)
       THEN [threw |-> FALSE, client |-> instances + 1,
             cached |-> instances + 1, made |-> instances + 1]
       ELSE [threw |-> TRUE, client |-> 0, cached |-> 0, made |-> instances]

\* the request methods of NotionClient; archivePage is updatePage
Methods ==
  { "createPage", "getPage", "updatePage", "archivePage", "getBlockChildren",
    "appendBlockChildren", "deleteBlock", "queryDatabase", "getDatabase",
    "getPagePropertyItem", "listUsers", "search" }

Request(method, target, cursor, block, children, parent) ==
  [method |-> IF method = "archivePage" THEN "updatePage" ELSE method,
   target |-> target, cursor |-> cursor, block |-> block,
   children |-> children, parent |-> parent]

\* what the log keeps of a request
LogEntry(req) ==
  [method |-> req.method, target |-> req.target, block |-> req.block,
   count |-> Len(req.children), parent |-> req.parent]

\* the client method sends its request and the caller awaits it
Issue(req) ==
  /\ inflight' = req
  /\ log' = Append(log, LogEntry(req))
  /\ reply' = NoReply

(***************************************************************************)
(* The remote API behind the transport                                     *)
(***************************************************************************)
\* one page of the children of the page, from position c, of size k
ChildrenPage(r, c, k) ==
  LET n == Len(r.children)
      to == Min({c + k, n})
  IN  [results |-> [j \in 1..(to - c) |-> r.children[c + j].id],
       has_more |-> to < n,
       next_cursor |-> IF to < n THEN to ELSE 0,
       collection_id |-> << >>]

\* the bodies the remote can answer a request with
Responses(r, req) ==
  CASE req.method = "getPage" ->
         { [NoData EXCEPT !.collection_id = r.collection_id] }
    [] req.method = "getBlockChildren" ->
         { ChildrenPage(r, req.cursor, k) : k \in 1..MaxPageSize }
    [] OTHER -> { NoData }

\* the remote workspace after a request that succeeded
Effect(r, req) ==
  CASE req.method = "deleteBlock" ->
         [r EXCEPT !.children =
            SelectSeq(r.children, LAMBDA c : c.id # req.block)]
    [] req.method = "appendBlockChildren" ->
         [r EXCEPT !.children =
            r.children \o [j \in 1..Len(req.children) |->
                             [id |-> r.nextId + j - 1,
                              block |-> req.children[j]]],
                   !.nextId = r.nextId + Len(req.children)]
    [] req.method = "createPage" ->
         [r EXCEPT !.created =
            Append(r.created, [parent |-> req.parent, target |-> req.target,
                               children |-> req.children])]
    [] OTHER -> r

\* the transport settles the request in flight: the remote answers and the
\* client method returns response.data, or the transport fails and the
\* client method throws what handleError makes of the failure
Transport ==
  /\ inflight.method # ""
  /\ \/ /\ remote' = Effect(remote, inflight)
        /\ \E d \in Responses(remote, inflight) :
             reply' = [NoReply EXCEPT !.state = "resolved", !.data = d]
     \/ /\ remote' = remote
        /\ \E e \in remote.faults :
             reply' = [NoReply EXCEPT !.state = "rejected",
                                      !.error = handleError(e),
                                      !.cause = e]
  /\ inflight' = NoRequest
  /\ UNCHANGED << env, clientInstance, instances, registered, finalTools,
                  hpc, args, loc, log, outcome >>
  /\ UNCHANGED vars

(***************************************************************************)
(* Callers of the client: getNotionClient and one request method           *)
(***************************************************************************)
MaxRequests == 1

TokenValues == { None, Some(<< >>), Some(<< "s" >>) }

\* the optional fields of response bodies and of errors without response
Messages == { Absent, Field(""), Field("Page not found") }
Codes == { Absent, Field(""), Field("object_not_found") }
Statuses == { 400, 404, 429, 500 }

\* the failures of the transport
AxiosErrors ==
  { AxiosError(TRUE, st, [message |-> m, code |-> c], Field("Request failed")) :
      st \in Statuses, m \in Messages, c \in Codes }
  \cup { AxiosError(FALSE, 0, NoBody, m) :
           m \in { Absent, Field(""), Field("Network Error") } }

\* the environment sets or unsets NOTION_TOKEN between calls
SetToken ==
  /\ hpc = "idle"
  /\ \E t \in TokenValues :
       /\ t # env.NOTION_TOKEN
       /\ env' = [env EXCEPT !.NOTION_TOKEN = t]
  /\ UNCHANGED << clientInstance, instances, registered, finalTools, hpc,
                  args, loc, inflight, reply, log, remote, outcome >>
  /\ UNCHANGED vars

\* a call of getNotionClient()
GetClient ==
  /\ hpc = "idle"
  /\ LET g == getNotionClient
     IN  /\ clientInstance' = g.cached
         /\ instances' = g.made
         /\ outcome' = IF g.threw
                       THEN [NoOutcome EXCEPT !.kind = "thrown",
                                              !.thrown = TokenError]
                       ELSE [NoOutcome EXCEPT !.kind = "returned",
                                              !.value = g.client]
         /\ loc' = [loc EXCEPT !.client = g.client]
  /\ UNCHANGED << env, registered, finalTools, hpc, args, inflight, reply,
                  log, remote >>
  /\ UNCHANGED vars

\* a call of one request method on the client that getNotionClient gave
ClientCall ==
  /\ hpc = "idle"
  /\ loc.client # 0
  /\ Len(log) < MaxRequests
  /\ \E m \in Methods :
       /\ Issue(Request(m, << "p" >>, 0, 0, << >>, ""))
       /\ args' = [NoArgs EXCEPT !.tool = m]
  /\ hpc' = "awaiting"
  /\ outcome' = NoOutcome
  /\ UNCHANGED << env, clientInstance, instances, registered, finalTools,
                  loc, remote >>
  /\ UNCHANGED vars

\* the promise of the request method settles
Settle ==
  /\ hpc = "awaiting"
  /\ reply.state # "none"
  /\ outcome' = IF reply.state = "resolved"
                THEN [NoOutcome EXCEPT !.kind = "resolved"]
                ELSE [NoOutcome EXCEPT !.kind = "rejected",
                                       !.thrown = reply.error]
  /\ reply' = NoReply
  /\ hpc' = "idle"
  /\ UNCHANGED << env, clientInstance, instances, registered, finalTools,
                  args, loc, inflight, log, remote >>
  /\ UNCHANGED vars

\* a process that calls getNotionClient and the request methods
InitClient ==
  /\ env \in { [NOTION_TOKEN |-> t, NOTION_MCP_TOOLSET |-> None] :
                 t \in TokenValues }
  /\ clientInstance = 0
  /\ instances = 0
  /\ registered = << >>
  /\ finalTools = << >>
  /\ hpc = "idle"
  /\ args = NoArgs
  /\ loc = NoLocals
  /\ inflight = NoRequest
  /\ reply = NoReply
  /\ log = << >>
  /\ remote = [NoRemote EXCEPT !.faults = AxiosErrors]
  /\ outcome = NoOutcome
  /\ content = << >>
  /\ pc = "idle"
  /\ Idle
  /\ text = << >>
  /\ remaining = << >>
  /\ segments = << >>
  /\ result = << >>
  /\ seg = Segment(<< >>, {})
  /\ parts = << >>

NextClient == SetToken \/ GetClient \/ ClientCall \/ Transport \/ Settle

SpecClient == InitClient /\ [][NextClient]_allVars

\* an optional field of a response body that is present and not empty
Given(o) == o.defined /\ o.value # ""

GetClientStep ==
  /\ hpc = "idle"
  /\ outcome' # outcome
  /\ outcome'.kind \in {"returned", "thrown"}

\* C30: over any sequence of getNotionClient calls at most one
\* NotionClient is ever constructed, the singleton once set never changes,
\* and every call that returns gives that one instance.  A call made while
\* NOTION_TOKEN is unset and nothing is cached throws, constructs nothing
\* and caches nothing; a call made with the token set and nothing cached
\* constructs a client, caches it and returns it.
C30_Singleton ==
  /\ [](instances <= 1)
  /\ [](clientInstance \in {0, instances})
  /\ [](outcome.kind = "returned" =>
          (outcome.value = clientInstance /\ clientInstance = 1))
  /\ [][clientInstance # 0 =>
          (clientInstance' = clientInstance /\ instances' = instances)]_allVars
  /\ [][(GetClientStep /\ outcome'.kind = "thrown") =>
          /\ clientInstance = 0
          /\ ~Truthy(env.NOTION_TOKEN)
          /\ clientInstance' = 0
          /\ instances' = instances
          /\ outcome'.thrown.name = "Error"]_allVars
  /\ [][(GetClientStep /\ clientInstance = 0 /\ Truthy(env.NOTION_TOKEN)) =>
          /\ outcome'.kind = "returned"
          /\ instances' = instances + 1
          /\ clientInstance' = instances'
          /\ outcome'.value = clientInstance']_allVars

\* a call threw, nothing is cached, and the token has been set since
C30_Witness ==
  /\ hpc = "idle"
  /\ outcome.kind = "thrown"
  /\ clientInstance = 0
  /\ instances = 0
  /\ Truthy(env.NOTION_TOKEN)

(***************************************************************************)
(* registerTools                                                           *)
(***************************************************************************)
\* String.prototype.toLowerCase, on the letters the inputs use
UpperCase == << "A", "B", "C", "E", "G", "H", "L", "O", "T", "Y" >>
LowerCase == << "a", "b", "c", "e", "g", "h", "l", "o", "t", "y" >>

toLowerCase(str) ==
  [k \in 1..Len(str) |->
     IF \E u \in 1..Len(UpperCase) : UpperCase[u] = str[k]
     THEN LowerCase[CHOOSE u \in 1..Len(UpperCase) : UpperCase[u] = str[k]]
     ELSE str[k]]

\* the register functions, named by the tool each registers
genericTools ==
  << "get_collection", "query_collection", "create_item", "get_item",
     "update_item", "archive_item", "format_content", "search", "list_users" >>

legacyTools ==
  << "create_page", "get_page", "update_page", "archive_page",
     "create_database_entry", "get_database_entry", "update_database_entry",
     "query_database", "search", "list_users" >>

sharedTools == << "search", "list_users" >>

\* Array.prototype.includes
includes(arr, t) == \E k \in 1..Len(arr) : arr[k] = t

Generic == << "g", "e", "n", "e", "r", "i", "c" >>
Legacy == << "l", "e", "g", "a", "c", "y" >>
Both == << "b", "o", "t", "h" >>

\* finalTools of registerTools that leaves the shared tools in both lists
finalToolsUnfiltered(e) ==
  LET toolset == toLowerCase(IF e.NOTION_MCP_TOOLSET.defined
                             THEN e.NOTION_MCP_TOOLSET.value
                             ELSE Generic)
      toolsToRegister == IF toolset = Legacy THEN legacyTools ELSE genericTools
  IN  IF toolset = Both
      THEN genericTools \o legacyTools
      ELSE toolsToRegister

\* finalTools of registerTools for the environment e
finalToolsOf(e) ==
  LET toolset == toLowerCase(IF e.NOTION_MCP_TOOLSET.defined
                             THEN e.NOTION_MCP_TOOLSET.value
                             ELSE Generic)
      toolsToRegister == IF toolset = Legacy THEN legacyTools ELSE genericTools
      notShared(t) == ~includes(sharedTools, t)
  IN  IF toolset = Both
      THEN SelectSeq(genericTools, notShared)
             \o SelectSeq(legacyTools, notShared) \o sharedTools
      ELSE toolsToRegister

\* registerTools(server) is called: toolset, toolsToRegister, finalTools
RegisterTools ==
  /\ hpc = "idle"
  /\ finalTools' = finalToolsOf(env)
  /\ registered' = << >>
  /\ hpc' = "registering"
  /\ UNCHANGED << env, clientInstance, instances, args, loc, inflight, reply,
                  log, remote, outcome >>
  /\ UNCHANGED vars

\* one iteration of the for loop: register(server)
RegisterNext ==
  /\ hpc = "registering"
  /\ finalTools # << >>
  /\ registered' = Append(registered, Head(finalTools))
  /\ finalTools' = Tail(finalTools)
  /\ UNCHANGED << env, clientInstance, instances, hpc, args, loc, inflight,
                  reply, log, remote, outcome >>
  /\ UNCHANGED vars

\* the loop ends and registerTools returns
RegisterReturn ==
  /\ hpc = "registering"
  /\ finalTools = << >>
  /\ hpc' = "registered"
  /\ UNCHANGED << env, clientInstance, instances, registered, finalTools,
                  args, loc, inflight, reply, log, remote, outcome >>
  /\ UNCHANGED vars

\* the values of NOTION_MCP_TOOLSET
ToolsetValues ==
  { None, Some(<< >>), Some(Generic), Some(Legacy), Some(Both),
    Some(<< "L", "E", "G", "A", "C", "Y" >>),
    Some(<< "L", "e", "g", "a", "c", "Y" >>),
    Some(<< "B", "O", "T", "H" >>), Some(<< "B", "o", "t", "h" >>),
    Some(Legacy \o << SP >>), Some(<< "l", "e", "g" >>),
    Some(<< "a", "l", "l" >>) }

\* a server that registers its tools
InitRegister ==
  /\ env \in { [NOTION_TOKEN |-> Some(<< "s" >>), NOTION_MCP_TOOLSET |-> t] :
                 t \in ToolsetValues }
  /\ clientInstance = 0
  /\ instances = 0
  /\ registered = << >>
  /\ finalTools = << >>
  /\ hpc = "idle"
  /\ args = NoArgs
  /\ loc = NoLocals
  /\ inflight = NoRequest
  /\ reply = NoReply
  /\ log = << >>
  /\ remote = NoRemote
  /\ outcome = NoOutcome
  /\ content = << >>
  /\ pc = "idle"
  /\ Idle
  /\ text = << >>
  /\ remaining = << >>
  /\ segments = << >>
  /\ result = << >>
  /\ seg = Segment(<< >>, {})
  /\ parts = << >>

NextRegister == RegisterTools \/ RegisterNext \/ RegisterReturn

SpecRegister == InitRegister /\ [][NextRegister]_allVars

\* the tools a client lists for the generic and for the legacy toolset
GenericNames ==
  { "create_item", "get_item", "update_item", "archive_item",
    "get_collection", "query_collection", "search", "list_users",
    "format_content" }

LegacyNames ==
  { "create_page", "get_page", "update_page", "archive_page",
    "create_database_entry", "get_database_entry", "update_database_entry",
    "query_database", "search", "list_users" }

\* the names in a sequence, and how often a name stands in it
Names(q) == { q[k] : k \in 1..Len(q) }
Times(q, t) == Cardinality({ k \in 1..Len(q) : q[k] = t })

\* v is "legacy" in any mix of upper and lower case
AnyCaseLegacy(v) ==
  /\ Len(v) = 6
  /\ v[1] \in {"l", "L"}
  /\ v[2] \in {"e", "E"}
  /\ v[3] \in {"g", "G"}
  /\ v[4] \in {"a", "A"}
  /\ v[5] \in {"c", "C"}
  /\ v[6] \in {"y", "Y"}

AnyCaseBoth(v) ==
  /\ Len(v) = 4
  /\ v[1] \in {"b", "B"}
  /\ v[2] \in {"o", "O"}
  /\ v[3] \in {"t", "T"}
  /\ v[4] \in {"h", "H"}

\* C25: registerTools registers exactly the 9 generic tools when
\* NOTION_MCP_TOOLSET is unset, exactly the 10 legacy tools when it is
\* "legacy" in any case, and the generic and legacy tools together when it
\* is "both"; in every mode no tool is ever registered twice, and when
\* registerTools has returned search and list_users are each registered
\* exactly once.
C25_ToolRegistration ==
  LET t == env.NOTION_MCP_TOOLSET
  IN  /\ \A a, b \in 1..Len(registered) :
           registered[a] = registered[b] => a = b
      /\ hpc = "registered" =>
           /\ Times(registered, "search") = 1
           /\ Times(registered, "list_users") = 1
           /\ ~t.defined =>
                (Len(registered) = 9 /\ Names(registered) = GenericNames)
           /\ (t.defined /\ AnyCaseLegacy(t.value)) =>
                (Len(registered) = 10 /\ Names(registered) = LegacyNames)
           /\ (t.defined /\ AnyCaseBoth(t.value)) =>
                Names(registered) = GenericNames \cup LegacyNames
           /\ Names(registered) \in
                { GenericNames, LegacyNames, GenericNames \cup LegacyNames }

\* registerTools returned in mode "BOTH" with 17 tools registered
C25_Witness ==
  /\ hpc = "registered"
  /\ env.NOTION_MCP_TOOLSET = Some(<< "B", "O", "T", "H" >>)
  /\ Len(registered) = 17
  /\ registered[16] = "search"

(***************************************************************************)
(* The handlers of update_item, create_item and get_collection             *)
(***************************************************************************)
Tools == { "update_item", "create_item", "get_collection" }

\* the handler returns an error result of its own
ErrorResult(message) ==
  [NoOutcome EXCEPT !.kind = "error_result", !.message = message]

\* the handler returns its result
Result == [NoOutcome EXCEPT !.kind = "result"]

\* something thrown inside the try block, on its way to the catch clause
Thrown(e) == [NoReply EXCEPT !.state = "rejected", !.error = e]

\* update_item: refuse both contents, get the client, await getPage
UpdateItemStart ==
  /\ hpc = "called"
  /\ args.tool = "update_item"
  /\ IF Truthy(args.replace_content) /\ Truthy(args.append_content)
     THEN /\ outcome' = ErrorResult("Cannot use both 'replace_content' and 'append_content'. Use one or the other.")
          /\ hpc' = "returned"
          /\ UNCHANGED << clientInstance, instances, loc, inflight, reply, log >>
     ELSE LET g == getNotionClient
          IN  /\ clientInstance' = g.cached
              /\ instances' = g.made
              /\ loc' = [loc EXCEPT !.client = g.client]
              /\ outcome' = outcome
              /\ IF g.threw
                 THEN /\ reply' = Thrown(TokenError)
                      /\ hpc' = "threw"
                      /\ UNCHANGED << inflight, log >>
                 ELSE /\ Issue(Request("getPage", args.item.value, 0, 0, << >>, ""))
                      /\ hpc' = "page"
  /\ UNCHANGED << env, registered, finalTools, args, remote >>
  /\ UNCHANGED vars

\* update_item: the page came; a collection item awaits getDatabase, a
\* plain page takes only the title
UGotPage ==
  /\ hpc = "page"
  /\ args.tool = "update_item"
  /\ reply.state = "resolved"
  /\ IF reply.data.collection_id # << >>
     THEN /\ Issue(Request("getDatabase", reply.data.collection_id, 0, 0, << >>, ""))
          /\ loc' = [loc EXCEPT !.collectionId = reply.data.collection_id]
          /\ hpc' = "db"
     ELSE /\ loc' = [loc EXCEPT !.hasParams = Truthy(args.title)]
          /\ reply' = NoReply
          /\ hpc' = "update"
          /\ UNCHANGED << inflight, log >>
  /\ UNCHANGED << env, clientInstance, instances, registered, finalTools,
                  args, remote, outcome >>
  /\ UNCHANGED vars

\* update_item: the database came; props holds the title when one is given
UGotDatabase ==
  /\ hpc = "db"
  /\ args.tool = "update_item"
  /\ reply.state = "resolved"
  /\ loc' = [loc EXCEPT !.hasParams = Truthy(args.title)]
  /\ reply' = NoReply
  /\ hpc' = "update"
  /\ UNCHANGED << env, clientInstance, instances, registered, finalTools,
                  args, inflight, log, remote, outcome >>
  /\ UNCHANGED vars

\* update_item: await updatePage when there is something to update
UUpdate ==
  /\ hpc = "update"
  /\ IF loc.hasParams
     THEN /\ Issue(Request("updatePage", args.item.value, 0, 0, << >>, ""))
          /\ hpc' = "updating"
     ELSE /\ hpc' = "replace"
          /\ UNCHANGED << inflight, reply, log >>
  /\ UNCHANGED << env, clientInstance, instances, registered, finalTools,
                  args, loc, remote, outcome >>
  /\ UNCHANGED vars

UUpdated ==
  /\ hpc = "updating"
  /\ reply.state = "resolved"
  /\ reply' = NoReply
  /\ hpc' = "replace"
  /\ UNCHANGED << env, clientInstance, instances, registered, finalTools,
                  args, loc, inflight, log, remote, outcome >>
  /\ UNCHANGED vars

\* update_item: if (replace_content !== undefined): blockIds, cursor, i = 0
UReplace ==
  /\ hpc = "replace"
  /\ IF args.replace_content.defined
     THEN /\ loc' = [loc EXCEPT !.blockIds = << >>, !.cursor = 0, !.li = 0,
                                !.di = 0]
          /\ hpc' = "list"
     ELSE /\ loc' = loc
          /\ hpc' = "append"
  /\ UNCHANGED << env, clientInstance, instances, registered, finalTools,
                  args, inflight, reply, log, remote, outcome >>
  /\ UNCHANGED vars

\* update_item: for (let i = 0; i < 20; i++) await getBlockChildren
UList ==
  /\ hpc = "list"
  /\ IF loc.li < LIST_PAGES_MAX
     THEN /\ Issue(Request("getBlockChildren", args.item.value, loc.cursor, 0,
                           << >>, ""))
          /\ hpc' = "listing"
     ELSE /\ hpc' = "delete"
          /\ UNCHANGED << inflight, reply, log >>
  /\ UNCHANGED << env, clientInstance, instances, registered, finalTools,
                  args, loc, remote, outcome >>
  /\ UNCHANGED vars

\* update_item: collect the ids of one page of children; break, or go on
\* with the next cursor
UListed ==
  /\ hpc = "listing"
  /\ reply.state = "resolved"
  /\ LET data == reply.data
         ids == SelectSeq(data.results, LAMBDA id : id # 0)
         gone == [loc EXCEPT !.blockIds = loc.blockIds \o ids]
     IN  IF ~data.has_more
         THEN /\ loc' = gone
              /\ hpc' = "delete"
         ELSE IF data.next_cursor = 0
              THEN /\ loc' = [gone EXCEPT !.cursor = 0]
                   /\ hpc' = "delete"
              ELSE /\ loc' = [gone EXCEPT !.cursor = data.next_cursor,
                                          !.li = loc.li + 1]
                   /\ hpc' = "list"
  /\ reply' = NoReply
  /\ UNCHANGED << env, clientInstance, instances, registered, finalTools,
                  args, inflight, log, remote, outcome >>
  /\ UNCHANGED vars

\* update_item: for (const id of blockIds) await deleteBlock(id); then
\* batches = markdownToBlocksBatched(replace_content)
UDelete ==
  /\ hpc = "delete"
  /\ IF loc.di < Len(loc.blockIds)
     THEN /\ Issue(Request("deleteBlock", args.item.value, 0,
                           loc.blockIds[loc.di + 1], << >>, ""))
          /\ loc' = loc
          /\ hpc' = "deleting"
     ELSE /\ loc' = [loc EXCEPT
                       !.hbatches = markdownToBlocksBatched(args.replace_content.value),
                       !.bidx = 0, !.phase = "replace"]
          /\ hpc' = "send"
          /\ UNCHANGED << inflight, reply, log >>
  /\ UNCHANGED << env, clientInstance, instances, registered, finalTools,
                  args, remote, outcome >>
  /\ UNCHANGED vars

UDeleted ==
  /\ hpc = "deleting"
  /\ reply.state = "resolved"
  /\ loc' = [loc EXCEPT !.di = loc.di + 1]
  /\ reply' = NoReply
  /\ hpc' = "delete"
  /\ UNCHANGED << env, clientInstance, instances, registered, finalTools,
                  args, inflight, log, remote, outcome >>
  /\ UNCHANGED vars

\* USend that sends the batches last to first
USendLastFirst ==
  /\ hpc = "send"
  /\ IF loc.bidx < Len(loc.hbatches)
     THEN /\ Issue(Request("appendBlockChildren", args.item.value, 0, 0,
                           loc.hbatches[Len(loc.hbatches) - loc.bidx], ""))
          /\ hpc' = "sending"
     ELSE /\ hpc' = IF loc.phase = "replace" THEN "append" ELSE "return"
          /\ UNCHANGED << inflight, reply, log >>
  /\ UNCHANGED << env, clientInstance, instances, registered, finalTools,
                  args, loc, remote, outcome >>
  /\ UNCHANGED vars

\* update_item: for (const batch of batches) await appendBlockChildren
USend ==
  /\ hpc = "send"
  /\ IF loc.bidx < Len(loc.hbatches)
     THEN /\ Issue(Request("appendBlockChildren", args.item.value, 0, 0,
                           loc.hbatches[loc.bidx + 1], ""))
          /\ hpc' = "sending"
     ELSE /\ hpc' = IF loc.phase = "replace" THEN "append" ELSE "return"
          /\ UNCHANGED << inflight, reply, log >>
  /\ UNCHANGED << env, clientInstance, instances, registered, finalTools,
                  args, loc, remote, outcome >>
  /\ UNCHANGED vars

USent ==
  /\ hpc = "sending"
  /\ reply.state = "resolved"
  /\ loc' = [loc EXCEPT !.bidx = loc.bidx + 1]
  /\ reply' = NoReply
  /\ hpc' = "send"
  /\ UNCHANGED << env, clientInstance, instances, registered, finalTools,
                  args, inflight, log, remote, outcome >>
  /\ UNCHANGED vars

\* update_item: if (append_content): batches of append_content
UAppend ==
  /\ hpc = "append"
  /\ IF Truthy(args.append_content)
     THEN /\ loc' = [loc EXCEPT
                       !.hbatches = markdownToBlocksBatched(args.append_content.value),
                       !.bidx = 0, !.phase = "append"]
          /\ hpc' = "send"
     ELSE /\ loc' = loc
          /\ hpc' = "return"
  /\ UNCHANGED << env, clientInstance, instances, registered, finalTools,
                  args, inflight, reply, log, remote, outcome >>
  /\ UNCHANGED vars

\* update_item: return { item: normalizeItem(updated) }
UReturn ==
  /\ hpc = "return"
  /\ outcome' = Result
  /\ hpc' = "returned"
  /\ UNCHANGED << env, clientInstance, instances, registered, finalTools,
                  args, loc, inflight, reply, log, remote >>
  /\ UNCHANGED vars

\* create_item choosing the parent item whenever one is given
CreateItemStartPageFirst ==
  /\ hpc = "called"
  /\ args.tool = "create_item"
  /\ LET g == getNotionClient
     IN  /\ clientInstance' = g.cached
         /\ instances' = g.made
         /\ IF g.threw
            THEN /\ reply' = Thrown(TokenError)
                 /\ hpc' = "threw"
                 /\ UNCHANGED << loc, inflight, log, outcome >>
            ELSE IF ~Truthy(args.collection) /\ ~Truthy(args.parent_item)
                 THEN /\ outcome' = ErrorResult("Provide either 'collection' or 'parent_item'")
                      /\ hpc' = "returned"
                      /\ loc' = [loc EXCEPT !.client = g.client]
                      /\ UNCHANGED << inflight, reply, log >>
                 ELSE IF Truthy(args.collection) /\ ~Truthy(args.parent_item)
                      THEN /\ loc' = [loc EXCEPT !.client = g.client,
                                                 !.parent = "database_id"]
                           /\ Issue(Request("getDatabase", args.collection.value,
                                            0, 0, << >>, ""))
                           /\ hpc' = "c_db"
                           /\ outcome' = outcome
                      ELSE /\ loc' = [loc EXCEPT !.client = g.client,
                                                 !.parent = "page_id"]
                           /\ hpc' = "c_children"
                           /\ UNCHANGED << inflight, reply, log, outcome >>
  /\ UNCHANGED << env, registered, finalTools, args, remote >>
  /\ UNCHANGED vars

\* create_item: get the client, refuse a call without collection and
\* parent_item, choose the parent, await getDatabase for a collection
CreateItemStart ==
  /\ hpc = "called"
  /\ args.tool = "create_item"
  /\ LET g == getNotionClient
     IN  /\ clientInstance' = g.cached
         /\ instances' = g.made
         /\ IF g.threw
            THEN /\ reply' = Thrown(TokenError)
                 /\ hpc' = "threw"
                 /\ UNCHANGED << loc, inflight, log, outcome >>
            ELSE IF ~Truthy(args.collection) /\ ~Truthy(args.parent_item)
                 THEN /\ outcome' = ErrorResult("Provide either 'collection' or 'parent_item'")
                      /\ hpc' = "returned"
                      /\ loc' = [loc EXCEPT !.client = g.client]
                      /\ UNCHANGED << inflight, reply, log >>
                 ELSE IF Truthy(args.collection)
                      THEN /\ loc' = [loc EXCEPT !.client = g.client,
                                                 !.parent = "database_id"]
                           /\ Issue(Request("getDatabase", args.collection.value,
                                            0, 0, << >>, ""))
                           /\ hpc' = "c_db"
                           /\ outcome' = outcome
                      ELSE /\ loc' = [loc EXCEPT !.client = g.client,
                                                 !.parent = "page_id"]
                           /\ hpc' = "c_children"
                           /\ UNCHANGED << inflight, reply, log, outcome >>
  /\ UNCHANGED << env, registered, finalTools, args, remote >>
  /\ UNCHANGED vars

\* create_item: the database came; properties are built from its schema
CGotDatabase ==
  /\ hpc = "c_db"
  /\ reply.state = "resolved"
  /\ reply' = NoReply
  /\ hpc' = "c_children"
  /\ UNCHANGED << env, clientInstance, instances, registered, finalTools,
                  args, loc, inflight, log, remote, outcome >>
  /\ UNCHANGED vars

\* create_item: children = content ? markdownToBlocks(content) : [], and
\* await createPage({ parent, properties, children })
CCreate ==
  /\ hpc = "c_children"
  /\ LET children == IF Truthy(args.content)
                     THEN markdownToBlocks(args.content.value)
                     ELSE << >>
         target == IF loc.parent = "database_id"
                   THEN args.collection.value
                   ELSE args.parent_item.value
     IN  /\ Issue(Request("createPage", target, 0, 0, children, loc.parent))
         /\ loc' = [loc EXCEPT !.children = children]
  /\ hpc' = "c_creating"
  /\ UNCHANGED << env, clientInstance, instances, registered, finalTools,
                  args, remote, outcome >>
  /\ UNCHANGED vars

\* create_item: return { item: normalizeItem(created) }
CCreated ==
  /\ hpc = "c_creating"
  /\ reply.state = "resolved"
  /\ outcome' = Result
  /\ reply' = NoReply
  /\ hpc' = "returned"
  /\ UNCHANGED << env, clientInstance, instances, registered, finalTools,
                  args, loc, inflight, log, remote >>
  /\ UNCHANGED vars

\* get_collection: get the client and await getDatabase
GetCollectionStart ==
  /\ hpc = "called"
  /\ args.tool = "get_collection"
  /\ LET g == getNotionClient
     IN  /\ clientInstance' = g.cached
         /\ instances' = g.made
         /\ loc' = [loc EXCEPT !.client = g.client]
         /\ IF g.threw
            THEN /\ reply' = Thrown(TokenError)
                 /\ hpc' = "threw"
                 /\ UNCHANGED << inflight, log >>
            ELSE /\ Issue(Request("getDatabase", args.collection.value, 0, 0,
                                  << >>, ""))
                 /\ hpc' = "g_db"
  /\ UNCHANGED << env, registered, finalTools, args, remote, outcome >>
  /\ UNCHANGED vars

\* get_collection: return the schema of the database
GGotDatabase ==
  /\ hpc = "g_db"
  /\ reply.state = "resolved"
  /\ outcome' = Result
  /\ reply' = NoReply
  /\ hpc' = "returned"
  /\ UNCHANGED << env, clientInstance, instances, registered, finalTools,
                  args, loc, inflight, log, remote >>
  /\ UNCHANGED vars

\* Catch that returns every error as an error result
CatchReturnsAll ==
  /\ args.tool \in Tools
  /\ reply.state = "rejected"
  /\ outcome' = [NoOutcome EXCEPT !.kind = "error_result",
                                  !.message = reply.error.message,
                                  !.hasCode = TRUE,
                                  !.code = reply.error.code]
  /\ reply' = NoReply
  /\ hpc' = "returned"
  /\ UNCHANGED << env, clientInstance, instances, registered, finalTools,
                  args, loc, inflight, log, remote >>
  /\ UNCHANGED vars

\* the catch clause of the three handlers: a NotionClientError becomes an
\* error result with its message and code, anything else is thrown again
Catch ==
  /\ args.tool \in Tools
  /\ reply.state = "rejected"
  /\ outcome' = IF reply.error.name = "NotionClientError"
                THEN [NoOutcome EXCEPT !.kind = "error_result",
                                       !.message = reply.error.message,
                                       !.hasCode = TRUE,
                                       !.code = reply.error.code]
                ELSE [NoOutcome EXCEPT !.kind = "thrown",
                                       !.thrown = reply.error]
  /\ reply' = NoReply
  /\ hpc' = "returned"
  /\ UNCHANGED << env, clientInstance, instances, registered, finalTools,
                  args, loc, inflight, log, remote >>
  /\ UNCHANGED vars

(***************************************************************************)
(* Invocations of the handlers                                             *)
(***************************************************************************)
\* a document of n one-block lines
ManyLines(n) == Join([k \in 1..n |-> << "L" >> \o Numeral(k)], << NL >>)

ShortContent == << "#", SP, "a", NL, "-", SP, "b" >>
LongContent == ManyLines(BLOCKS_PER_BATCH + 1)

PageId == << "p" >>
DatabaseId == << "d" >>

\* what the page holds before the call
OldBlock ==
  makeBlock("paragraph", {"rich_text"}, plainRichText(<< "o" >>), FALSE, << >>)

OldChildren(n) == [k \in 1..n |-> [id |-> k, block |-> OldBlock]]

\* counts of children: few, and around what LIST_PAGES_MAX pages can hold
ChildCounts ==
  { 0, 1, 2, LIST_PAGES_MAX, LIST_PAGES_MAX + 1,
    LIST_PAGES_MAX * MaxPageSize + 1 }

\* the failures of the transport during a handler
HandlerFaults ==
  { AxiosError(TRUE, 404,
               [message |-> Field("Page not found"),
                code |-> Field("object_not_found")],
               Field("Request failed")),
    AxiosError(FALSE, 0, NoBody, Field("Network Error")) }

UpdateItemCalls ==
  { [NoArgs EXCEPT !.tool = "update_item", !.item = Some(PageId),
                   !.title = t, !.append_content = a, !.replace_content = r] :
      t \in { None, Some(<< "t" >>) },
      a \in { None, Some(<< >>), Some(<< "x" >>) },
      r \in { None, Some(<< >>), Some(ShortContent), Some(LongContent) } }

CreateItemCalls ==
  { [NoArgs EXCEPT !.tool = "create_item", !.title = Some(<< "t" >>),
                   !.collection = c, !.parent_item = q, !.content = m] :
      c \in { None, Some(<< >>), Some(DatabaseId) },
      q \in { None, Some(<< >>), Some(PageId) },
      m \in { None, Some(<< >>), Some(ShortContent), Some(LongContent) } }

GetCollectionCalls ==
  { [NoArgs EXCEPT !.tool = "get_collection", !.collection = Some(DatabaseId)] }

\* the page of an invocation: many children only for a plain replacement
Remotes(a) ==
  LET counts == IF a.tool = "update_item"
                THEN IF a.replace_content.defined /\ ~a.title.defined
                        /\ ~a.append_content.defined
                     THEN ChildCounts
                     ELSE { 0, 2 }
                ELSE { 0 }
      collections(n) == IF a.tool = "update_item" /\ (n \in { 0, 2 })
                        THEN { << >>, DatabaseId }
                        ELSE { << >> }
  IN  UNION { { [NoRemote EXCEPT !.children = OldChildren(n), !.initial = n,
                                 !.nextId = n + 1, !.collection_id = c,
                                 !.faults = HandlerFaults] :
                  c \in collections(n) } : n \in counts }

\* one invocation of a handler: no client cached and the token set, unset
\* or empty, or a client cached and the token unset since
InitHandlers ==
  /\ args \in UpdateItemCalls \cup CreateItemCalls \cup GetCollectionCalls
  /\ remote \in Remotes(args)
  /\ \E t \in TokenValues, c \in { 0, 1 } :
       /\ c = 1 => t = None
       /\ env = [NOTION_TOKEN |-> t, NOTION_MCP_TOOLSET |-> None]
       /\ clientInstance = c
       /\ instances = c
  /\ registered = << >>
  /\ finalTools = << >>
  /\ hpc = "called"
  /\ loc = NoLocals
  /\ inflight = NoRequest
  /\ reply = NoReply
  /\ log = << >>
  /\ outcome = NoOutcome
  /\ content = << >>
  /\ pc = "idle"
  /\ Idle
  /\ text = << >>
  /\ remaining = << >>
  /\ segments = << >>
  /\ result = << >>
  /\ seg = Segment(<< >>, {})
  /\ parts = << >>

NextHandlers ==
  \/ UpdateItemStart
  \/ UGotPage
  \/ UGotDatabase
  \/ UUpdate
  \/ UUpdated
  \/ UReplace
  \/ UList
  \/ UListed
  \/ UDelete
  \/ UDeleted
  \/ USend
  \/ USent
  \/ UAppend
  \/ UReturn
  \/ CreateItemStart
  \/ CGotDatabase
  \/ CCreate
  \/ CCreated
  \/ GetCollectionStart
  \/ GGotDatabase
  \/ Catch
  \/ Transport

SpecHandlers == InitHandlers /\ [][NextHandlers]_allVars

\* the positions in the log of the requests of method m
Entries(m) == { k \in 1..Len(log) : log[k].method = m }

\* the handler has returned or thrown
HandlerDone == hpc = "returned"

\* the blocks of the children of the page, and of those added by the call
BlocksOf(children) == [k \in 1..Len(children) |-> children[k].block]
NewChildren == SelectSeq(remote.children, LAMBDA c : c.id > remote.initial)
OldLeft == SelectSeq(remote.children, LAMBDA c : c.id <= remote.initial)

\* C21: after update_item with replace_content (and no append_content)
\* has returned its result, no child the page had before the call is left,
\* whatever the number of children and the pages getBlockChildren gave,
\* and the children of the page are the blocks converted from
\* replace_content, in order.
C21_BodyReplaced ==
  (/\ args.tool = "update_item"
   /\ HandlerDone
   /\ outcome.kind = "result"
   /\ args.replace_content.defined
   /\ ~Truthy(args.append_content)) =>
     /\ OldLeft = << >>
     /\ BlocksOf(remote.children) = markdownToBlocks(args.replace_content.value)

\* C22: an update_item call with both replace_content and append_content
\* issues no remote request and returns an error result, and no call
\* both deletes children of the page and sends blocks of append_content.
C22_NeverBoth ==
  /\ (/\ args.tool = "update_item"
      /\ Truthy(args.replace_content)
      /\ Truthy(args.append_content)) =>
        /\ log = << >>
        /\ HandlerDone => outcome.kind = "error_result"
  /\ ~(/\ args.tool = "update_item"
       /\ Entries("deleteBlock") # {}
       /\ loc.phase = "append"
       /\ Entries("appendBlockChildren") # {})

\* neither collection nor parent_item is given (or given empty)
NeitherParent == ~Truthy(args.collection) /\ ~Truthy(args.parent_item)

\* every createPage of the call names the database when collection is
\* given, else the parent item
ParentAsGiven ==
  \A k \in Entries("createPage") :
    IF Truthy(args.collection)
    THEN log[k].parent = "database_id" /\ log[k].target = args.collection.value
    ELSE log[k].parent = "page_id" /\ log[k].target = args.parent_item.value

\* C23 as stated: create_item with neither collection nor parent_item
\* returns the error result "Provide either 'collection' or 'parent_item'"
\* and issues no remote request; with collection the page is created under
\* that database, otherwise under the parent item.
C23_AsStated ==
  args.tool = "create_item" =>
    /\ NeitherParent =>
         /\ log = << >>
         /\ HandlerDone =>
              outcome = ErrorResult("Provide either 'collection' or 'parent_item'")
    /\ ParentAsGiven

\* C23, amended: create_item with neither collection nor parent_item
\* issues no remote request; it returns the error result "Provide either
\* 'collection' or 'parent_item'" when getNotionClient gave it a client,
\* and throws the error of the NotionClient constructor when NOTION_TOKEN
\* is unset and no client is cached.  With collection the page is created
\* under that database, otherwise under the parent item.
C23_ParentOrError ==
  args.tool = "create_item" =>
    /\ NeitherParent =>
         /\ log = << >>
         /\ HandlerDone =>
              IF clientInstance # 0
              THEN outcome = ErrorResult("Provide either 'collection' or 'parent_item'")
              ELSE outcome.kind = "thrown" /\ outcome.thrown = TokenError
    /\ ParentAsGiven
    /\ (HandlerDone /\ outcome.kind = "result") =>
         /\ Len(remote.created) = 1
         /\ remote.created[1].parent
              = IF Truthy(args.collection) THEN "database_id" ELSE "page_id"

\* create_item without collection and parent_item returned the error
\* result, with a client constructed and nothing sent
C23_Witness ==
  /\ args.tool = "create_item"
  /\ ~args.collection.defined
  /\ args.parent_item = Some(<< >>)
  /\ HandlerDone
  /\ clientInstance = 1
  /\ outcome.kind = "error_result"
  /\ log = << >>

\* C27: every request that submits blocks (createPage of create_item,
\* appendBlockChildren of update_item) carries at most 100 blocks.
C27_AtMostHundred ==
  \A k \in 1..Len(log) : log[k].count <= BLOCKS_PER_BATCH

\* the place of a method in the order of update_item
Rank(m) ==
  CASE m = "getPage" -> 1
    [] m = "getDatabase" -> 2
    [] m = "updatePage" -> 3
    [] m = "getBlockChildren" -> 4
    [] m = "deleteBlock" -> 5
    [] m = "appendBlockChildren" -> 6
    [] OTHER -> 7

\* the blocks an update_item call is to add, in source order
BlocksToAdd ==
  (IF args.replace_content.defined
   THEN markdownToBlocks(args.replace_content.value) ELSE << >>)
  \o (IF Truthy(args.append_content)
      THEN markdownToBlocks(args.append_content.value) ELSE << >>)

\* C28: within one update_item call the remote requests are issued one at
\* a time (a request is issued only when none is in flight and the last
\* one succeeded) and in the order getPage, getDatabase, updatePage, the
\* getBlockChildren pages (at most 20), the deleteBlock requests, the
\* appendBlockChildren requests: getPage is first and, like getDatabase
\* and updatePage, issued at most once, and no appendBlockChildren comes
\* before a deleteBlock.  When the call has returned its result the page
\* has received the blocks of the content in source order.
C28_CallOrder ==
  /\ [](args.tool = "update_item" =>
          /\ \A j, k \in 1..Len(log) :
               j < k => Rank(log[j].method) <= Rank(log[k].method)
          /\ log # << >> => log[1].method = "getPage"
          /\ Cardinality(Entries("getPage")) <= 1
          /\ Cardinality(Entries("getDatabase")) <= 1
          /\ Cardinality(Entries("updatePage")) <= 1
          /\ Cardinality(Entries("getBlockChildren")) <= LIST_PAGES_MAX
          /\ \A k \in 1..Len(log) : Rank(log[k].method) <= 6)
  /\ [](inflight.method # "" =>
          /\ reply.state = "none"
          /\ log # << >>
          /\ log[Len(log)] = LogEntry(inflight))
  /\ [][log' # log =>
          /\ inflight.method = ""
          /\ reply.state # "rejected"
          /\ Len(log') = Len(log) + 1
          /\ SubSeq(log', 1, Len(log)) = log
          /\ inflight'.method # ""]_allVars
  /\ []((/\ args.tool = "update_item"
         /\ HandlerDone
         /\ outcome.kind = "result") =>
          BlocksOf(NewChildren) = BlocksToAdd)

\* an update_item call that replaced the body of a collection item with
\* 101 blocks and set its title has returned: one getPage, getDatabase,
\* updatePage and getBlockChildren, two deleteBlock, and two
\* appendBlockChildren of 100 blocks and 1 block
C28_Witness ==
  /\ args.tool = "update_item"
  /\ HandlerDone
  /\ outcome.kind = "result"
  /\ Len(log) = 8
  /\ log[2].method = "getDatabase"
  /\ log[3].method = "updatePage"
  /\ log[4].method = "getBlockChildren"
  /\ log[5].method = "deleteBlock"
  /\ log[6].method = "deleteBlock"
  /\ log[7].method = "appendBlockChildren"
  /\ log[7].count = 100
  /\ log[8].count = 1
  /\ Len(remote.children) = 101
  /\ OldLeft = << >>

\* C29: in the three handlers a request that fails ends the call: the
\* step after the rejection issues nothing, and returns an error result
\* with the message and code of the NotionClientError, or throws the
\* error again when it is not a NotionClientError; nothing happens after
\* the handler is done.  A call ended by a failed getBlockChildren or
\* deleteBlock has issued no appendBlockChildren, and a call that threw
\* has issued no request.
C29_FirstFailureEnds ==
  /\ [][(args.tool \in Tools /\ reply.state = "rejected") =>
          /\ log' = log
          /\ inflight' = NoRequest
          /\ remote' = remote
          /\ hpc' = "returned"
          /\ IF reply.error.name = "NotionClientError"
             THEN /\ outcome'.kind = "error_result"
                  /\ outcome'.message = reply.error.message
                  /\ outcome'.hasCode
                  /\ outcome'.code = reply.error.code
             ELSE /\ outcome'.kind = "thrown"
                  /\ outcome'.thrown = reply.error]_allVars
  /\ [][~HandlerDone]_allVars
  /\ [](reply.state = "rejected" => inflight.method = "")
  /\ []((HandlerDone /\ outcome.kind = "error_result" /\ outcome.hasCode) =>
          /\ log # << >>
          /\ log[Len(log)].method \in {"getBlockChildren", "deleteBlock"} =>
               Entries("appendBlockChildren") = {})
  /\ []((HandlerDone /\ outcome.kind = "thrown") => log = << >>)

\* an update_item call was ended by its second deleteBlock failing with
\* the 404 response: error result, nothing appended
C29_Witness ==
  /\ args.tool = "update_item"
  /\ Truthy(args.replace_content)
  /\ HandlerDone
  /\ outcome.kind = "error_result"
  /\ outcome.message = "Page not found"
  /\ outcome.code = "object_not_found"
  /\ Cardinality(Entries("deleteBlock")) = 2
  /\ log[Len(log)].method = "deleteBlock"
  /\ Len(OldLeft) = remote.initial - 1
  /\ NewChildren = << >>

====
